---- MODULE Spec2Model ----
(***************************************************************************)
(* Otto on-call engine: the assignment persistence layer (SQLite and       *)
(* in-memory repositories), the webhook gateway with its module registry   *)
(* and event dispatch, the on-call command handlers and the escalation     *)
(* sweeper.                                                                *)
(*                                                                         *)
(* Specifications:                                                         *)
(*   SpecSeq   one caller issuing CreateAssignment / UpdateAssignment      *)
(*   SpecConc  two callers, each issuing one mark-current call             *)
(*   SpecCmd   sequentially handled webhook events (comment commands)      *)
(*   SpecGw    webhook requests, registry, fire-and-forget dispatch        *)
(*   SpecSweep      Initialize, Shutdown and the sweeper's ticks           *)
(*   SpecSweepLive  the same under fair scheduling of ticker and sweeper   *)
(*   SpecReg   RegisterModule / GetModules and a caller holding the map    *)
(*   SpecTx    Transaction with CreateUser calls, on both repositories     *)
(*   SpecOnCall  comment events with /oncall commands and failing calls    *)
(*   SpecRace  two concurrently handled /escalate or /ack comments         *)
(*   SpecNotify  sweeper ticks and comment events with failing comments    *)
(*   SpecAssign  /oncall assign events over seeded users and rotations     *)
(*   SpecCreate  /ack and /oncall add user handlers running side by side   *)
(*   SpecEnabled  comment events under each EnabledRepositories list       *)
(***************************************************************************)
EXTENDS Integers, FiniteSets, Sequences, TLC

\* ------------------------------------------------------------------ bounds
MaxAssignments == 3

\* ------------------------------------------------------------ universes
AssignmentIDs == 1..MaxAssignments
\* the empty ID string: CreateAssignment replaces it by a fresh uuid
EmptyID == 0
ZeroTime == 0             \* the zero time.Time
StartTime == 1            \* time.Now() at the first step
RotationIDs == {"rotation-1", "rotation-2"}
UserIDs == {"user-1"}
Procs == {"p1", "p2"}
RepoKinds == {"sqlite", "mock"}
NoLock == "free"

\* the on-call engine's inputs
MaxEvents == 3
MaxCommands == 2
MaxTxWrites == 2
MaxUsers == 3
MaxNumber == 2
Repos == {"org/repo"}
Handles == {"alice", "bob"}
Numbers == 1..MaxNumber
Statuses == {"pending", "acknowledged", "escalated", "resolved"}
EnabledConfigs == {{}, {"org/repo"}, {"org/other"}}

\* the webhook gateway's inputs
MaxRequests == 1
MaxTime == 4              \* the clock runs from StartTime to MaxTime
MaxFaults == 2            \* failures injected into one behaviour
MaxHeldOps == 3           \* GetModules calls and stores into the returned map
EscalationThreshold == 2  \* 24 * time.Hour, in units of the model's clock
Requests == 1..MaxRequests
WebhookSecret == "secret"
Keys == {WebhookSecret, "guess"}
Payloads == {[bytes |-> "b1", json |-> TRUE], [bytes |-> "b2", json |-> FALSE]}
OnCallEventTypes == {"issues", "issue_comment", "pull_request", "pull_request_review_comment"}
ParserEventTypes == OnCallEventTypes \cup {"push"}
EventTypes == {"issue_comment", "push", "bogus"}
Modules ==
    {[name |-> "oncall", impl |-> "a"], [name |-> "oncall", impl |-> "b"],
     [name |-> "audit", impl |-> "a"]}

VARIABLES
    repoKind,      \* which OnCallRepository implementation Module.Repo is
    assignments,   \* oncall_assignments: id -> [rotationID, userID, isCurrent]
    call,          \* per caller: the repository call in flight
    dbLock,        \* SQLite write lock: NoLock or the caller whose tx holds it
    txWrite,       \* per caller: rows written inside its open sqlx.Tx
    users,         \* oncall_users: id -> [handle, name, active]
    rotations,     \* oncall_rotations: id -> [name, repository, active]
    escalations,   \* oncall_escalations: id -> [assignmentID, issueNumber, prNumber, ...]
    comments,      \* comments posted through the GitHub provider, in order
    enabledRepos,  \* Config.EnabledRepositories
    last,          \* the event HandleEvent handled last, and what it returned
    handled,       \* number of events handled so far
    registry,      \* DefaultRegistry.modules: name -> module
    lastReg,       \* the last RegisterModule call and whether it was refused
    registryKind,  \* which Registry implementation: "default" or "mock"
    held,          \* the map a caller got from GetModules
    reqs,          \* per /webhook request: position in handleWebhook, input, response
    tasks,         \* goroutines spawned by DispatchEvent
    dispatcher,    \* HTTPServer.dispatcher is not nil
    now,           \* time.Now()
    ticker,        \* Module.ticker: set (not nil), running, C (ticks buffered)
    stopCh,        \* Module.stopCh: "open" or "closed"
    panicked,      \* the process has panicked
    sweeper,       \* the runEscalationCheck goroutine
    faults         \* number of failures injected so far

repoVars == <<repoKind, assignments, call, dbLock, txWrite>>
cmdVars == <<users, rotations, escalations, comments, enabledRepos, last, handled>>
gwVars == <<registry, lastReg, registryKind, held, reqs, tasks, dispatcher>>
swVars == <<now, ticker, stopCh, panicked, sweeper, faults>>
vars == <<repoVars, cmdVars, gwVars, swVars>>

\* --------------------------------------------------------------- helpers
Row(a) == [rotationID |-> a.rotationID, userID |-> a.userID, isCurrent |-> a.isCurrent]

CurrentOf(asg, rot) == {i \in DOMAIN asg : asg[i].rotationID = rot /\ asg[i].isCurrent}

\* uuid.New(): an id no row and no call in flight uses
FreshAssignmentID ==
    LET used == DOMAIN assignments \cup {call[p].a.id : p \in Procs}
        free == AssignmentIDs \ used
    IN  IF free = {} THEN EmptyID ELSE CHOOSE i \in free : \A j \in free : i <= j

IdleCall ==
    [pc |-> "idle", op |-> "none",
     a |-> [id |-> EmptyID, rotationID |-> "rotation-1", userID |-> "user-1", isCurrent |-> FALSE],
     err |-> FALSE, written |-> {}, preCur |-> {}]

\* ----------------------------------------------------- SQLite statements
\* rows the reset statement matches: WHERE rotation_id = ? AND id != ?
SQLiteResetRows(asg, rot, id) == {i \in DOMAIN asg : asg[i].rotationID = rot /\ i # id}

\* mutant of SQLiteResetCurrent: the reset clears nothing
SQLiteResetCurrentNoClear(asg, rot, id) == asg

\* UPDATE oncall_assignments SET is_current = 0, updated_at = CURRENT_TIMESTAMP
\*   WHERE rotation_id = ? AND id != ?
SQLiteResetCurrent(asg, rot, id) ==
    [i \in DOMAIN asg |->
        IF i \in SQLiteResetRows(asg, rot, id)
        THEN [asg[i] EXCEPT !.isCurrent = FALSE]
        ELSE asg[i]]

\* INSERT INTO oncall_assignments: id is the PRIMARY KEY
SQLiteInsertFails(asg, a) == a.id \in DOMAIN asg
SQLiteInsert(asg, a) == (a.id :> Row(a)) @@ asg

\* UPDATE oncall_assignments SET ... WHERE id = :id (no row: nothing written, no error)
SQLiteUpdate(asg, a) ==
    IF a.id \in DOMAIN asg THEN [asg EXCEPT ![a.id] = Row(a)] ELSE asg

SQLiteWrite(asg, op, a) == IF op = "create" THEN SQLiteInsert(asg, a) ELSE SQLiteUpdate(asg, a)

SQLiteWriteFails(asg, op, a) == op = "create" /\ SQLiteInsertFails(asg, a)

SQLiteWrittenRows(asg, op, a) ==
    IF op = "create" \/ a.id \in DOMAIN asg THEN {a.id} ELSE {}

\* ------------------------------------------------- in-memory repository
\* for id, a := range r.assignments { if a.RotationID == .. && a.ID != .. { a.IsCurrent = false; .. } }
MockResetCurrent(asg, rot, id) ==
    [i \in DOMAIN asg |->
        IF asg[i].rotationID = rot /\ i # id
        THEN [asg[i] EXCEPT !.isCurrent = FALSE]
        ELSE asg[i]]

\* a create that clears the rotation whether or not the new row is current
MockCreateAssignmentAlwaysReset(asg, a) ==
    (a.id :> Row(a)) @@ MockResetCurrent(asg, a.rotationID, a.id)

MockCreateAssignment(asg, a) ==
    LET cleared == IF a.isCurrent THEN MockResetCurrent(asg, a.rotationID, a.id) ELSE asg
    IN  (a.id :> Row(a)) @@ cleared

MockUpdateAssignment(asg, a) ==
    IF a.id \notin DOMAIN asg THEN asg
    ELSE LET cleared == IF a.isCurrent THEN MockResetCurrent(asg, a.rotationID, a.id) ELSE asg
         IN  [cleared EXCEPT ![a.id] = Row(a)]

MockWrittenRows(asg, op, a) ==
    IF op = "update" /\ a.id \notin DOMAIN asg THEN {}
    ELSE {a.id} \cup (IF a.isCurrent
                      THEN {i \in DOMAIN asg : asg[i].rotationID = a.rotationID /\ i # a.id}
                      ELSE {})

\* ------------------------------------------------------ repository calls
\* The caller enters CreateAssignment / UpdateAssignment.  The in-memory
\* repository runs the whole call under r.mu; the SQLite repository goes on
\* to a single statement (isCurrent false) or to Transaction (isCurrent true).
BeginCall(p, op, id, rot, usr, cur) ==
    /\ call[p].pc = "idle"
    /\ LET realID == IF op = "create" /\ id = EmptyID THEN FreshAssignmentID ELSE id
           a == [id |-> realID, rotationID |-> rot, userID |-> usr, isCurrent |-> cur]
           started == [pc |-> "idle", op |-> op, a |-> a, err |-> FALSE, written |-> {},
                       preCur |-> CurrentOf(assignments, rot) \ {realID}]
       IN  /\ realID # EmptyID \/ op = "update"
           /\ IF repoKind = "mock"
              THEN /\ assignments' = IF op = "create"
                                     THEN MockCreateAssignment(assignments, a)
                                     ELSE MockUpdateAssignment(assignments, a)
                   /\ call' = [call EXCEPT ![p] =
                                [started EXCEPT !.pc = "done",
                                                !.written = MockWrittenRows(assignments, op, a)]]
              ELSE /\ assignments' = assignments
                   /\ call' = [call EXCEPT ![p] =
                                [started EXCEPT !.pc = IF cur THEN "tx" ELSE "stmt"]]
    /\ UNCHANGED <<repoKind, dbLock, txWrite, cmdVars, gwVars, swVars>>

\* isCurrent false: r.db.Sqlx().NamedExecContext(ctx, query, assignment)
ExecDirect(p, storageOK) ==
    /\ call[p].pc = "stmt"
    /\ dbLock = NoLock
    /\ LET c == call[p]
           fails == ~storageOK \/ SQLiteWriteFails(assignments, c.op, c.a)
       IN  /\ assignments' = IF fails THEN assignments ELSE SQLiteWrite(assignments, c.op, c.a)
           /\ call' = [call EXCEPT ![p] =
                        [c EXCEPT !.pc = "done", !.err = fails,
                                  !.written = IF fails THEN {}
                                              ELSE SQLiteWrittenRows(assignments, c.op, c.a)]]
    /\ UNCHANGED <<repoKind, dbLock, txWrite, cmdVars, gwVars, swVars>>

\* inside Transaction's fn: the reset runs on r.db.Sqlx(), the pooled
\* connection, not on the sqlx.Tx: it commits on its own
ExecReset(p, storageOK) ==
    /\ call[p].pc = "tx"
    /\ dbLock = NoLock
    /\ LET c == call[p]
       IN  IF storageOK
           THEN /\ assignments' = SQLiteResetCurrent(assignments, c.a.rotationID, c.a.id)
                /\ call' = [call EXCEPT ![p] =
                             [c EXCEPT !.pc = "reset",
                                       !.written = SQLiteResetRows(assignments, c.a.rotationID, c.a.id)]]
           ELSE /\ assignments' = assignments
                /\ call' = [call EXCEPT ![p] = [c EXCEPT !.pc = "done", !.err = TRUE]]
    /\ UNCHANGED <<repoKind, dbLock, txWrite, cmdVars, gwVars, swVars>>

\* tx.CreateAssignment / tx.UpdateAssignment: the first statement on the
\* sqlx.Tx takes the write lock; an error makes Transaction roll back
TxExec(p, storageOK) ==
    /\ call[p].pc = "reset"
    /\ dbLock = NoLock
    /\ LET c == call[p]
           fails == ~storageOK \/ SQLiteWriteFails(assignments, c.op, c.a)
       IN  IF fails
           THEN /\ call' = [call EXCEPT ![p] = [c EXCEPT !.pc = "done", !.err = TRUE]]
                /\ UNCHANGED <<dbLock, txWrite>>
           ELSE /\ call' = [call EXCEPT ![p] = [c EXCEPT !.pc = "written"]]
                /\ dbLock' = p
                /\ txWrite' = [txWrite EXCEPT ![p] = {c.a.id}]
    /\ UNCHANGED <<repoKind, assignments, cmdVars, gwVars, swVars>>

\* sqlxTx.Commit(): the rows written on the tx become visible
Commit(p, storageOK) ==
    /\ call[p].pc = "written"
    /\ dbLock = p
    /\ LET c == call[p]
       IN  IF storageOK
           THEN /\ assignments' = SQLiteWrite(assignments, c.op, c.a)
                /\ call' = [call EXCEPT ![p] =
                             [c EXCEPT !.pc = "done",
                                       !.written = c.written \cup
                                                   SQLiteWrittenRows(assignments, c.op, c.a)]]
           ELSE /\ assignments' = assignments
                /\ call' = [call EXCEPT ![p] = [c EXCEPT !.pc = "done", !.err = TRUE]]
    /\ dbLock' = NoLock
    /\ txWrite' = [txWrite EXCEPT ![p] = {}]
    /\ UNCHANGED <<repoKind, cmdVars, gwVars, swVars>>

\* a statement that meets another connection's write lock: SQLITE_BUSY
Busy(p) ==
    /\ call[p].pc \in {"stmt", "tx", "reset"}
    /\ dbLock \notin {NoLock, p}
    /\ call' = [call EXCEPT ![p] = [call[p] EXCEPT !.pc = "done", !.err = TRUE]]
    /\ UNCHANGED <<repoKind, assignments, dbLock, txWrite, cmdVars, gwVars, swVars>>

\* the call returns to its caller
Return(p) ==
    /\ call[p].pc = "done"
    /\ call' = [call EXCEPT ![p] = IdleCall]
    /\ UNCHANGED <<repoKind, assignments, dbLock, txWrite, cmdVars, gwVars, swVars>>

\* ---------------------------------------------------------- Transaction
\* the ids of the user rows a caller has written on its open sqlx.Tx
Pending(p) == {w.id : w \in txWrite[p]}

\* uuid.New() for a user row
FreshUserID ==
    LET used == DOMAIN users \cup UNION {Pending(q) : q \in Procs}
    IN  CHOOSE i \in 1..(Cardinality(used) + 1) : i \notin used

\* Repo.Transaction(ctx, fn) up to the call of fn: BeginTxx (SQLite), or
\* r.mu.Lock() (in-memory), which waits for the Transaction in progress
TransactionBegin(p) ==
    /\ call[p].pc = "idle"
    /\ repoKind = "mock" => \A q \in Procs : call[q].pc # "fn"
    /\ call' = [call EXCEPT ![p] = [IdleCall EXCEPT !.pc = "fn", !.op = "transaction"]]
    /\ UNCHANGED <<repoKind, assignments, dbLock, txWrite, cmdVars, gwVars, swVars>>

\* fn calls tx.CreateUser: an INSERT on the sqlx.Tx, which takes the write
\* lock and is not visible before the commit (SQLite), or a store into
\* t.repo.users (in-memory)
TxCreateUser(p, handle) ==
    /\ call[p].pc = "fn"
    /\ Cardinality(call[p].written) < MaxTxWrites
    /\ Cardinality(DOMAIN users) + Cardinality(call[p].written) < MaxUsers
    /\ LET id == FreshUserID
           row == [handle |-> handle, name |-> handle, active |-> TRUE]
       IN  /\ call' = [call EXCEPT ![p].written = @ \cup {id}]
           /\ IF repoKind = "mock"
              THEN /\ users' = (id :> row) @@ users
                   /\ UNCHANGED <<dbLock, txWrite>>
              ELSE /\ dbLock \in {NoLock, p}
                   \* github_username TEXT UNIQUE: the INSERT of a handle
                   \* that a row already has fails and writes nothing
                   /\ \A i \in DOMAIN users : users[i].handle # handle
                   /\ \A w \in txWrite[p] : w.row.handle # handle
                   /\ dbLock' = p
                   /\ txWrite' = [txWrite EXCEPT ![p] = @ \cup {[id |-> id, row |-> row]}]
                   /\ UNCHANGED users
    /\ UNCHANGED <<repoKind, assignments, rotations, escalations, comments,
                   enabledRepos, last, handled, gwVars, swVars>>

\* fn returns and Transaction finishes: sqlxTx.Rollback() on an error of
\* fn, sqlxTx.Commit() otherwise (SQLite); `return fn(txRepo)` and the
\* deferred unlock (in-memory)
TransactionEnd(p, fnErr, commitOK) ==
    /\ call[p].pc = "fn"
    /\ commitOK \/ (repoKind = "sqlite" /\ ~fnErr)
    /\ IF repoKind = "mock"
       THEN /\ call' = [call EXCEPT ![p].pc = "done", ![p].err = fnErr]
            /\ UNCHANGED <<users, dbLock, txWrite>>
       ELSE /\ call' = [call EXCEPT ![p].pc = "done", ![p].err = fnErr \/ ~commitOK]
            /\ users' = IF ~fnErr /\ commitOK
                        THEN [i \in DOMAIN users \cup Pending(p) |->
                                IF i \in Pending(p)
                                THEN (CHOOSE w \in txWrite[p] : w.id = i).row
                                ELSE users[i]]
                        ELSE users
            /\ dbLock' = IF dbLock = p THEN NoLock ELSE dbLock
            /\ txWrite' = [txWrite EXCEPT ![p] = {}]
    /\ UNCHANGED <<repoKind, assignments, rotations, escalations, comments,
                   enabledRepos, last, handled, gwVars, swVars>>

\* -------------------------------------------------------- on-call engine
\* the persisted tables and the posted comments, as one value the command
\* handlers transform
DB ==
    [users |-> users, rotations |-> rotations, assignments |-> assignments,
     escalations |-> escalations, comments |-> comments]

\* what a handler leaves behind and whether it returned an error
Ret(db, err) == [db |-> db, err |-> err, cause |-> "none"]

\* mutant of Abort: the error is logged and the handler returns nil
AbortLogOnly(db) == [db |-> db, err |-> FALSE, cause |-> "repo"]

\* return fmt.Errorf("error ...: %w", err) after a repository call failed
Abort(db) == [db |-> db, err |-> TRUE, cause |-> "repo"]

\* uuid.New().String(): an id the table does not use
NewID(tbl) ==
    CHOOSE i \in 1..(Cardinality(DOMAIN tbl) + 1) :
        i \notin DOMAIN tbl /\ \A j \in 1..(i - 1) : j \in DOMAIN tbl

\* the statement named op returns an error (the in-memory repository has
\* no failing statement)
RepoFails(fail, op) == repoKind = "sqlite" /\ fail = op

\* GetContext returns sql.ErrNoRows on a miss and the SQLite Find* methods
\* wrap it into an error; the in-memory Find* methods return nil, nil
FindMissIsError == repoKind = "sqlite"

\* the row a single-row lookup returns among the matching rows S: the
\* first row of the table (SQLite), any row of the map (in-memory), or
\* EmptyID on a miss
FoundAmong(S) ==
    IF S = {} THEN {EmptyID}
    ELSE IF repoKind = "sqlite" THEN {CHOOSE i \in S : \A j \in S : i <= j}
    ELSE S

\* WHERE repository = ? AND issue_number = ?  /  ... AND pr_number = ?
EscalationMatches(escs, k, repo, n) ==
    {i \in DOMAIN escs :
        /\ escs[i].repository = repo
        /\ IF k = "issue" THEN escs[i].issueNumber = n ELSE escs[i].prNumber = n}

\* WHERE github_username = ?
UserMatches(usrs, handle) == {i \in DOMAIN usrs : usrs[i].handle = handle}

\* WHERE repository = ?
RotationMatches(rots, repo) == {i \in DOMAIN rots : rots[i].repository = repo}

\* unicode.ToLower over the characters that names use
UpperToLower == [P |-> "p", Q |-> "q", B |-> "b"]
Lower(c) == IF c \in DOMAIN UpperToLower THEN UpperToLower[c] ELSE c

\* strings.EqualFold(a, b)
EqualFold(a, b) ==
    /\ Len(a) = Len(b)
    /\ \A i \in 1..Len(a) : Lower(a[i]) = Lower(b[i])

\* for _, r := range rotations { if strings.EqualFold(r.Name, rotationName) ..
NameMatches(rots, repo, rotName) ==
    {i \in RotationMatches(rots, repo) : EqualFold(rots[i].name, rotName)}

\* the rows the lookups of one command return: the escalation of the key,
\* the user of the handle looked up, rotations[0] of the repository with
\* its current assignment, and the first rotation of the repository whose
\* name matches rotName
Picks(db, k, repo, n, handle, rotName) ==
    UNION { {[e |-> e, u |-> u, r |-> r, c |-> c, ar |-> ar] :
                c \in FoundAmong(CurrentOf(db.assignments, r))} :
            e \in FoundAmong(EscalationMatches(db.escalations, k, repo, n)),
            u \in FoundAmong(UserMatches(db.users, handle)),
            r \in FoundAmong(RotationMatches(db.rotations, repo)),
            ar \in FoundAmong(NameMatches(db.rotations, repo, rotName)) }

\* OnCallEscalation as handleAck*/handleEscalate* build it
NewEscalation(k, repo, n, aid, status, escTime) ==
    [assignmentID |-> aid,
     issueNumber |-> IF k = "issue" THEN n ELSE 0,
     prNumber |-> IF k = "pr" THEN n ELSE 0,
     repository |-> repo, status |-> status,
     escalationTime |-> escTime, resolutionTime |-> ZeroTime,
     createdAt |-> now]

\* a comment call that fails towards its caller after the comment went out
PostCommentRetried(db, k, repo, n, mention, text, fail) ==
    [db |-> [db EXCEPT !.comments =
                Append(@, [kind |-> k, repository |-> repo, number |-> n,
                           mention |-> mention, text |-> text])],
     err |-> fail = "PostComment",
     cause |-> IF fail = "PostComment" THEN "comment" ELSE "none"]

\* postIssueComment / postPRComment: github.CreateIssueComment; repo is
\* always of the form owner/name here
PostComment(db, k, repo, n, mention, text, fail) ==
    IF fail = "PostComment" THEN [db |-> db, err |-> TRUE, cause |-> "comment"]
    ELSE Ret([db EXCEPT !.comments =
                Append(@, [kind |-> k, repository |-> repo, number |-> n,
                           mention |-> mention, text |-> text])], FALSE)

\* Repo.CreateAssignment as a handler sees it: the whole call, with the
\* SQLite reset committed before the insert is attempted
RepoCreateAssignment(asg, a, fail) ==
    IF repoKind = "mock" THEN [asg |-> MockCreateAssignment(asg, a), err |-> FALSE]
    ELSE IF fail = "ResetCurrent" THEN [asg |-> asg, err |-> TRUE]
    ELSE LET cleared == IF a.isCurrent
                        THEN SQLiteResetCurrent(asg, a.rotationID, a.id) ELSE asg
         IN  IF fail = "CreateAssignment" \/ SQLiteInsertFails(cleared, a)
             THEN [asg |-> cleared, err |-> TRUE]
             ELSE [asg |-> SQLiteInsert(cleared, a), err |-> FALSE]

\* handleAckCommand / handleAckPRCommand, escalation == nil: find or create
\* the user, find or create the rotation, create the current assignment
\* and the acknowledged escalation, comment
AckCreate(db, k, repo, n, commenter, pick, fail) ==
    IF RepoFails(fail, "FindUser") \/ (pick.u = EmptyID /\ FindMissIsError)
    THEN Abort(db)
    ELSE IF pick.u = EmptyID /\ RepoFails(fail, "CreateUser") THEN Abort(db)
    ELSE
    LET uid == IF pick.u = EmptyID THEN NewID(db.users) ELSE pick.u
        db1 == IF pick.u # EmptyID THEN db
               ELSE [db EXCEPT !.users =
                       (uid :> [handle |-> commenter, name |-> commenter,
                                active |-> TRUE]) @@ @]
    IN
    IF RepoFails(fail, "FindRotations") THEN Abort(db1)
    ELSE IF pick.r = EmptyID /\ RepoFails(fail, "CreateRotation") THEN Abort(db1)
    ELSE
    LET rid == IF pick.r = EmptyID THEN NewID(db1.rotations) ELSE pick.r
        db2 == IF pick.r # EmptyID THEN db1
               ELSE [db1 EXCEPT !.rotations =
                       (rid :> [name |-> <<repo, "Default Rotation">>,
                                repository |-> repo, active |-> TRUE]) @@ @]
        aid == NewID(db2.assignments)
        ca  == RepoCreateAssignment(db2.assignments,
                   [id |-> aid, rotationID |-> rid, userID |-> uid, isCurrent |-> TRUE],
                   fail)
        db3 == [db2 EXCEPT !.assignments = ca.asg]
    IN
    IF ca.err \/ RepoFails(fail, "CreateEscalation") THEN Abort(db3)
    ELSE
    LET eid == NewID(db3.escalations)
        db4 == [db3 EXCEPT !.escalations =
                  (eid :> NewEscalation(k, repo, n, aid, "acknowledged", ZeroTime)) @@ @]
    IN  PostComment(db4, k, repo, n, commenter, "acknowledged", fail)

\* mutant of Acknowledgeable: every existing escalation is acknowledged
AcknowledgeableAlways(status) == TRUE

\* escalation.Status == StatusPending || escalation.Status == StatusEscalated
Acknowledgeable(status) == status \in {"pending", "escalated"}

\* handleAckCommand / handleAckPRCommand
HandleAckCommand(db, k, repo, n, commenter, pick, fail) ==
    IF RepoFails(fail, "FindEscalation") \/ (pick.e = EmptyID /\ FindMissIsError)
    THEN Abort(db)
    ELSE IF pick.e = EmptyID THEN AckCreate(db, k, repo, n, commenter, pick, fail)
    ELSE IF ~Acknowledgeable(db.escalations[pick.e].status)
    THEN Ret(db, FALSE)
    ELSE IF RepoFails(fail, "UpdateEscalation") THEN Abort(db)
    ELSE PostComment([db EXCEPT !.escalations[pick.e].status = "acknowledged"],
                     k, repo, n, commenter, "acknowledged", fail)

\* handleEscalateCommand, escalation == nil, after CreateEscalation: look
\* for the repository's current on-call user
EscalateNotify(db1, eid, repo, n, pick, fail) ==
    LET generic == PostComment(db1, "issue", repo, n, "", "marked for escalation", fail)
    IN
    IF RepoFails(fail, "FindRotations") THEN Abort(db1)
    ELSE IF pick.r = EmptyID THEN generic
    ELSE IF RepoFails(fail, "FindCurrentAssignment") \/ (pick.c = EmptyID /\ FindMissIsError)
    THEN Abort(db1)
    ELSE IF pick.c = EmptyID THEN generic
    ELSE IF RepoFails(fail, "UpdateEscalation") THEN Abort(db1)
    ELSE
    LET db2 == [db1 EXCEPT !.escalations[eid].assignmentID = pick.c]
        uid == db2.assignments[pick.c].userID
    IN
    IF RepoFails(fail, "FindUserByID") \/ (uid \notin DOMAIN db2.users /\ FindMissIsError)
    THEN Abort(db2)
    ELSE IF uid \in DOMAIN db2.users
    THEN PostComment(db2, "issue", repo, n, db2.users[uid].handle, "escalated to", fail)
    ELSE PostComment(db2, "issue", repo, n, "", "marked for escalation", fail)

\* handleEscalateCommand / handleEscalatePRCommand
HandleEscalateCommand(db, k, repo, n, pick, fail) ==
    IF RepoFails(fail, "FindEscalation") \/ (pick.e = EmptyID /\ FindMissIsError)
    THEN Abort(db)
    ELSE IF pick.e = EmptyID
    THEN IF RepoFails(fail, "CreateEscalation") THEN Abort(db)
         ELSE LET eid == NewID(db.escalations)
                  db1 == [db EXCEPT !.escalations =
                            (eid :> NewEscalation(k, repo, n, EmptyID, "escalated", now)) @@ @]
              IN  IF k = "pr"
                  THEN PostComment(db1, k, repo, n, "", "marked for escalation", fail)
                  ELSE EscalateNotify(db1, eid, repo, n, pick, fail)
    ELSE IF RepoFails(fail, "UpdateEscalation") THEN Abort(db)
    ELSE PostComment([db EXCEPT !.escalations[pick.e].status = "escalated",
                                !.escalations[pick.e].escalationTime = now],
                     k, repo, n, "", "re-escalated", fail)

\* mutant of Resolved: the resolution time is left as it was
ResolvedNoTimestamp(row, t) == [row EXCEPT !.status = "resolved"]

\* escalation.Status = StatusResolved; escalation.ResolutionTime = time.Now()
Resolved(row, t) == [row EXCEPT !.status = "resolved", !.resolutionTime = t]

\* handleResolveCommand / handleResolvePRCommand
HandleResolveCommand(db, k, repo, n, commenter, pick, fail) ==
    IF RepoFails(fail, "FindEscalation") \/ (pick.e = EmptyID /\ FindMissIsError)
    THEN Abort(db)
    ELSE IF pick.e = EmptyID THEN Ret(db, FALSE)
    ELSE IF RepoFails(fail, "UpdateEscalation") THEN Abort(db)
    ELSE PostComment([db EXCEPT !.escalations[pick.e] = Resolved(@, now)],
                     k, repo, n, commenter, "resolved by", fail)

\* handleAddUserCommand
HandleAddUserCommand(db, repo, n, username, name, pick, fail) ==
    IF RepoFails(fail, "FindUser") \/ (pick.u = EmptyID /\ FindMissIsError)
    THEN Abort(db)
    ELSE IF pick.u # EmptyID
    THEN PostComment(db, "issue", repo, n, username, "already exists", fail)
    ELSE IF RepoFails(fail, "CreateUser") THEN Abort(db)
    ELSE PostComment([db EXCEPT !.users =
                        (NewID(db.users) :> [handle |-> username, name |-> name,
                                             active |-> TRUE]) @@ @],
                     "issue", repo, n, username, "user added", fail)

\* handleAddRotationCommand
HandleAddRotationCommand(db, repo, n, name, fail) ==
    IF RepoFails(fail, "CreateRotation") THEN Abort(db)
    ELSE PostComment([db EXCEPT !.rotations =
                        (NewID(db.rotations) :> [name |-> name, repository |-> repo,
                                                 active |-> TRUE]) @@ @],
                     "issue", repo, n, "", "rotation created", fail)

\* handleAssignUserCommand
HandleAssignUserCommand(db, repo, n, username, pick, fail) ==
    IF RepoFails(fail, "FindUser") \/ (pick.u = EmptyID /\ FindMissIsError)
    THEN Abort(db)
    ELSE IF pick.u = EmptyID
    THEN PostComment(db, "issue", repo, n, username, "user does not exist", fail)
    ELSE IF RepoFails(fail, "FindRotations") THEN Abort(db)
    ELSE IF pick.ar = EmptyID
    THEN PostComment(db, "issue", repo, n, "", "rotation does not exist", fail)
    ELSE
    LET ca == RepoCreateAssignment(db.assignments,
                  [id |-> NewID(db.assignments), rotationID |-> pick.ar,
                   userID |-> pick.u, isCurrent |-> TRUE], fail)
        db1 == [db EXCEPT !.assignments = ca.asg]
    IN  IF ca.err THEN Abort(db1)
        ELSE PostComment(db1, "issue", repo, n, username, "assigned", fail)

\* comment bodies, as sequences of characters
AckWord == <<"/", "a", "c", "k">>
EscalateWord == <<"/", "e", "s", "c", "a", "l", "a", "t", "e">>
ResolveWord == <<"/", "r", "e", "s", "o", "l", "v", "e">>
CommentBodies ==
    { AckWord,
      AckWord \o <<" ", "n", "o", "w">>,
      AckWord \o <<"e", "d">>,
      <<" ">> \o AckWord,
      EscalateWord,
      ResolveWord,
      <<"t", "h", "x">> }

OncallWord == <<"/", "o", "n", "c", "a", "l", "l">>
AddWord == <<"a", "d", "d">>
UserWord == <<"u", "s", "e", "r">>
RotationWord == <<"r", "o", "t", "a", "t", "i", "o", "n">>
AssignWord == <<"a", "s", "s", "i", "g", "n">>
ToWord == <<"t", "o">>

\* the handles, spelled out
Spelled == [alice |-> <<"a", "l", "i", "c", "e">>, bob |-> <<"b", "o", "b">>]

\* the Go string of a captured handle
HandleOf(chars) ==
    IF \E h \in DOMAIN Spelled : Spelled[h] = chars
    THEN CHOOSE h \in DOMAIN Spelled : Spelled[h] = chars
    ELSE "unknown"

\* bodies of the /oncall commands: add a user, add a rotation, assign a
\* user to a rotation (spelled in the other case, or missing), a command
\* without its last argument, and two commands on two lines
OnCallBodies ==
    { OncallWord \o <<" ">> \o AddWord \o <<" ">> \o UserWord \o <<" ">>
          \o Spelled["bob"] \o <<" ", "B">>,
      OncallWord \o <<" ">> \o AddWord \o <<" ">> \o RotationWord \o <<" ", "P">>,
      OncallWord \o <<" ", " ">> \o AssignWord \o <<" ">> \o Spelled["alice"] \o <<" ">>
          \o ToWord \o <<" ", "p">>,
      OncallWord \o <<" ">> \o AssignWord \o <<" ">> \o Spelled["bob"] \o <<" ">>
          \o ToWord \o <<" ", "Q">>,
      OncallWord \o <<" ">> \o AddWord \o <<" ">> \o UserWord \o <<" ">> \o Spelled["bob"],
      AckWord \o <<"\n">> \o EscalateWord,
      AckWord }

\* \w and [a-zA-Z0-9_-] of the regular expressions, over the characters the
\* bodies use
WordChars ==
    {"a", "b", "c", "d", "e", "g", "h", "i", "k", "l", "n", "o", "r", "s", "t",
     "u", "v", "w", "x", "B", "P", "Q", "p"}
HandleChars == WordChars

\* \s of the regular expressions, over the characters the bodies use
SpaceChars == {" ", "\n"}

\* the only element of a singleton: binds a position once it is computed
Only(S) == CHOOSE x \in S : TRUE

\* the last position of the longest run of characters of class from i on
\* (i - 1 when there is none)
RunEnd(body, i, class) ==
    LET S == {j \in i..Len(body) : \A k \in i..j : body[k] \in class}
    IN  IF S = {} THEN i - 1 ELSE CHOOSE j \in S : \A k \in S : k <= j

\* the pieces of the /oncall patterns: a literal, `\s+`, the group
\* `([a-zA-Z0-9_-]+)`, and the tail `\s+(.+)$`
Lit(word) == [t |-> "lit", w |-> word]
Spaces == [t |-> "spaces", w |-> << >>]
HandleGroup == [t |-> "handle", w |-> << >>]
RestGroup == [t |-> "rest", w |-> << >>]

\* addUserPattern, addRotationPattern, assignUserPattern, after their `^`
AddUserPattern ==
    <<Lit(OncallWord), Spaces, Lit(AddWord), Spaces, Lit(UserWord), Spaces,
      HandleGroup, RestGroup>>
AddRotationPattern ==
    <<Lit(OncallWord), Spaces, Lit(AddWord), Spaces, Lit(RotationWord), RestGroup>>
AssignUserPattern ==
    <<Lit(OncallWord), Spaces, Lit(AssignWord), Spaces, HandleGroup, Spaces,
      Lit(ToWord), RestGroup>>

NoSubmatch == [ok |-> FALSE, caps |-> << >>]

\* where the group of the tail `\s+(.+)$` starts when the tail is matched at
\* i, 0 when it does not match: `.` matches no newline, `$` only the end
\* of the body, and `\s+` gives its last character to the group when
\* nothing else is left for it
RestStart(body, i) ==
    Only({ IF j < i \/ (IF j < Len(body) THEN j + 1 ELSE j) <= i THEN 0
           ELSE IF \E k \in (IF j < Len(body) THEN j + 1 ELSE j)..Len(body) :
                       body[k] = "\n" THEN 0
           ELSE IF j < Len(body) THEN j + 1 ELSE j
           : j \in {RunEnd(body, i, SpaceChars)} })

\* the pieces toks matched one after the other from position i on, with the
\* groups captured so far: the repetitions are greedy, and no shorter
\* repetition can make a later piece match
RECURSIVE MatchFrom(_, _, _, _)
MatchFrom(body, i, toks, caps) ==
    IF toks = << >> THEN [ok |-> TRUE, caps |-> caps]
    ELSE Only({
        IF tok.t = "lit"
        THEN IF i + Len(tok.w) - 1 <= Len(body) /\ SubSeq(body, i, i + Len(tok.w) - 1) = tok.w
             THEN MatchFrom(body, i + Len(tok.w), Tail(toks), caps)
             ELSE NoSubmatch
        ELSE IF tok.t = "rest"
        THEN Only({ IF r = 0 THEN NoSubmatch
                    ELSE [ok |-> TRUE, caps |-> Append(caps, SubSeq(body, r, Len(body)))]
                    : r \in {RestStart(body, i)} })
        ELSE Only({ IF j < i THEN NoSubmatch
                    ELSE MatchFrom(body, j + 1, Tail(toks),
                                   IF tok.t = "handle"
                                   THEN Append(caps, SubSeq(body, i, j)) ELSE caps)
                    : j \in {RunEnd(body, i, IF tok.t = "handle" THEN HandleChars
                                                ELSE SpaceChars)} })
        : tok \in {Head(toks)} })

NoMatch == [ok |-> FALSE, username |-> << >>, name |-> << >>]

\* addUserPattern.FindStringSubmatch(body)
AddUserMatch(body) ==
    Only({ IF m.ok THEN [ok |-> TRUE, username |-> m.caps[1], name |-> m.caps[2]]
           ELSE NoMatch : m \in {MatchFrom(body, 1, AddUserPattern, << >>)} })

\* addRotationPattern.FindStringSubmatch(body)
AddRotationMatch(body) ==
    Only({ IF m.ok THEN [ok |-> TRUE, username |-> << >>, name |-> m.caps[1]]
           ELSE NoMatch : m \in {MatchFrom(body, 1, AddRotationPattern, << >>)} })

\* assignUserPattern.FindStringSubmatch(body)
AssignUserMatch(body) ==
    Only({ IF m.ok THEN [ok |-> TRUE, username |-> m.caps[1], name |-> m.caps[2]]
           ELSE NoMatch : m \in {MatchFrom(body, 1, AssignUserPattern, << >>)} })

\* regexp `^<word>\b`: the body starts with the word and the word ends there
MatchString(word, body) ==
    /\ Len(body) >= Len(word)
    /\ SubSeq(body, 1, Len(word)) = word
    /\ Len(body) = Len(word) \/ body[Len(word) + 1] \notin WordChars

\* the if / else-if chain of handlePullRequestReviewCommentEvent, over
\* ackPattern, escalatePattern, resolvePattern
CommandOfPR(body) ==
    IF MatchString(AckWord, body) THEN "ack"
    ELSE IF MatchString(EscalateWord, body) THEN "escalate"
    ELSE IF MatchString(ResolveWord, body) THEN "resolve"
    ELSE "none"

\* the if / else-if chain of handleIssueCommentEvent, over the six patterns
CommandOf(body) ==
    IF CommandOfPR(body) # "none" THEN CommandOfPR(body)
    ELSE IF AddUserMatch(body).ok THEN "adduser"
    ELSE IF AddRotationMatch(body).ok THEN "addrotation"
    ELSE IF AssignUserMatch(body).ok THEN "assign"
    ELSE "none"

\* the patterns in the order of their declaration, and the patterns a body
\* matches
PatternOrder == <<"ack", "escalate", "resolve", "adduser", "addrotation", "assign">>
Matching(body) ==
    {i \in 1..6 : \/ i = 1 /\ MatchString(AckWord, body)
                  \/ i = 2 /\ MatchString(EscalateWord, body)
                  \/ i = 3 /\ MatchString(ResolveWord, body)
                  \/ i = 4 /\ AddUserMatch(body).ok
                  \/ i = 5 /\ AddRotationMatch(body).ok
                  \/ i = 6 /\ AssignUserMatch(body).ok}
FirstMatch(body) ==
    IF Matching(body) = {} THEN 0
    ELSE CHOOSE i \in Matching(body) : \A j \in Matching(body) : i <= j

\* the submatches of the pattern that selected the command
Submatch(cmd, body) ==
    IF cmd = "adduser" THEN AddUserMatch(body)
    ELSE IF cmd = "addrotation" THEN AddRotationMatch(body)
    ELSE IF cmd = "assign" THEN AssignUserMatch(body)
    ELSE NoMatch

\* the lines of a body
RECURSIVE Lines(_)
Lines(body) ==
    IF \E i \in 1..Len(body) : body[i] = "\n"
    THEN LET i == CHOOSE i \in 1..Len(body) :
                      body[i] = "\n" /\ \A j \in 1..(i - 1) : body[j] # "\n"
         IN  <<SubSeq(body, 1, i - 1)>> \o Lines(SubSeq(body, i + 1, Len(body)))
    ELSE <<body>>

\* the bodies that are delivered, and what the patterns give for each
KnownBodies == CommentBodies \cup OnCallBodies \cup {<< >>}
Matched ==
    [body \in KnownBodies |->
        [pr |-> CommandOfPR(body), issue |-> CommandOf(body),
         first |-> FirstMatch(body), sub |-> Submatch(CommandOf(body), body),
         lines |-> Len(Lines(body))]]

\* the handle the command looks up: the commenter, or the handle it names
LookedUp(cmd, commenter, body) ==
    IF cmd \in {"adduser", "assign"} THEN HandleOf(Matched[body].sub.username)
    ELSE commenter

\* mutant of isRepositoryEnabled: the list is not consulted
isRepositoryEnabledAlways(repo) == TRUE

\* Module.isRepositoryEnabled: an empty list enables every repository
isRepositoryEnabled(repo) == enabledRepos = {} \/ repo \in enabledRepos

\* issue_comment events carry an issue, review comment events a pull request
KindOf(eventType) == IF eventType = "pull_request_review_comment" THEN "pr" ELSE "issue"

\* a chain that is run on every line of the body
RECURSIVE CommandsEveryLine(_, _)
CommandsEveryLine(k, body) ==
    LET ls == Lines(body)
        c == IF k = "pr" THEN CommandOfPR(ls[1]) ELSE CommandOf(ls[1])
        rest == IF Len(ls) = 1 THEN << >>
                ELSE CommandsEveryLine(k, SubSeq(body, Len(ls[1]) + 2, Len(body)))
    IN  (IF c = "none" THEN << >> ELSE <<c>>) \o rest

\* the commands one comment runs, in order: the chain is run once, on the
\* whole body, and returns from its first branch taken
Commands(k, body) ==
    LET c == IF k = "pr" THEN Matched[body].pr ELSE Matched[body].issue
    IN  IF c = "none" THEN << >> ELSE <<c>>

\* a handler that runs the chain whatever was done to the comment
CommandsRunAnyAction(k, action, repo, body) ==
    IF ~isRepositoryEnabled(repo) THEN << >> ELSE Commands(k, body)

\* the commands a comment event runs, none when the event is ignored
CommandsRun(k, action, repo, body) ==
    IF action # "created" \/ ~isRepositoryEnabled(repo) THEN << >>
    ELSE Commands(k, body)

\* the command a comment event runs, "none" when the event is ignored
CommandRun(k, action, repo, body) ==
    IF CommandsRun(k, action, repo, body) = << >> THEN "none"
    ELSE CommandsRun(k, action, repo, body)[1]

\* the branch of the chain taken for cmd
RunCommand(db, k, cmd, repo, n, commenter, body, pick, fail) ==
    IF cmd = "ack" THEN HandleAckCommand(db, k, repo, n, commenter, pick, fail)
    ELSE IF cmd = "escalate" THEN HandleEscalateCommand(db, k, repo, n, pick, fail)
    ELSE IF cmd = "resolve" THEN HandleResolveCommand(db, k, repo, n, commenter, pick, fail)
    ELSE IF cmd = "adduser"
    THEN HandleAddUserCommand(db, repo, n, LookedUp(cmd, commenter, body),
                              Matched[body].sub.name, pick, fail)
    ELSE IF cmd = "addrotation"
    THEN HandleAddRotationCommand(db, repo, n, Matched[body].sub.name, fail)
    ELSE HandleAssignUserCommand(db, repo, n, LookedUp(cmd, commenter, body), pick, fail)

RECURSIVE RunCommands(_, _, _, _, _, _, _, _, _)
RunCommands(db, k, cmds, repo, n, commenter, body, pick, fail) ==
    IF cmds = << >> THEN Ret(db, FALSE)
    ELSE LET res == RunCommand(db, k, Head(cmds), repo, n, commenter, body, pick, fail)
         IN  IF res.err \/ Len(cmds) = 1 THEN res
             ELSE RunCommands(res.db, k, Tail(cmds), repo, n, commenter, body, pick, fail)

\* handleIssueCommentEvent / handlePullRequestReviewCommentEvent
HandleCommentEvent(db, k, action, repo, n, commenter, body, pick, fail) ==
    RunCommands(db, k, CommandsRun(k, action, repo, body), repo, n, commenter,
                body, pick, fail)

\* Module.HandleEvent: issues and pull_request events are only logged, any
\* other event type falls through the switch
HandleEvent(db, eventType, action, repo, n, commenter, body, pick, fail) ==
    IF eventType \in {"issue_comment", "pull_request_review_comment"}
    THEN HandleCommentEvent(db, KindOf(eventType), action, repo, n, commenter, body, pick, fail)
    ELSE Ret(db, FALSE)

NoEvent ==
    [eventType |-> "none", repo |-> "none", number |-> 0,
     commenter |-> "none", cmd |-> "none", err |-> FALSE, repeat |-> FALSE,
     fresh |-> FALSE, prior |-> "none", cause |-> "none",
     ran |-> << >>, first |-> 0, lookedUp |-> "none",
     found |-> [u |-> FALSE, ar |-> FALSE], inert |-> FALSE, lines |-> 0]

\* what is remembered of the handled event: the command it ran, on what,
\* for whom, what HandleEvent returned and why, the status of the escalation
\* its lookup found ("none" on a miss), the commands run, the first pattern
\* the body matches and the number of its lines, the handle looked up and
\* whether the user and the named rotation were found; an ignored event
\* leaves only its type; inert tells that the event carried no comment,
\* that the comment was not created, or that its body matches no pattern
Inert(eventType, action, body) ==
    \/ eventType \notin {"issue_comment", "pull_request_review_comment"}
    \/ action # "created"
    \/ Matched[body].first = 0

Handled(eventType, action, repo, n, commenter, cmds, res, pick, body) ==
    IF cmds = << >>
    THEN [NoEvent EXCEPT !.eventType = eventType,
                         !.inert = Inert(eventType, action, body)]
    ELSE [inert |-> Inert(eventType, action, body),
          eventType |-> eventType, repo |-> repo, number |-> n,
          commenter |-> commenter, cmd |-> cmds[1], err |-> res.err,
          repeat |-> /\ last.cmd = cmds[1] /\ last.eventType = eventType
                     /\ last.repo = repo /\ last.number = n,
          fresh |-> /\ users = << >> /\ rotations = << >>
                    /\ assignments = << >> /\ escalations = << >>,
          prior |-> IF pick.e = EmptyID THEN "none" ELSE escalations[pick.e].status,
          cause |-> res.cause, ran |-> cmds,
          first |-> Matched[body].first, lines |-> Matched[body].lines,
          lookedUp |-> LookedUp(cmds[1], commenter, body),
          found |-> [u |-> pick.u # EmptyID, ar |-> pick.ar # EmptyID]]

\* Module.HandleEvent runs from start to return
Deliver(eventType, action, repo, n, commenter, body, fail) ==
    /\ \E cmds \in {IF eventType \in {"issue_comment", "pull_request_review_comment"}
                    THEN CommandsRun(KindOf(eventType), action, repo, body) ELSE << >>} :
         \E pick \in Picks(DB, KindOf(eventType), repo, n,
                           LookedUp(IF cmds = << >> THEN "none" ELSE cmds[1], commenter, body),
                           Matched[body].sub.name) :
           \E res \in {HandleEvent(DB, eventType, action, repo, n, commenter, body, pick, fail)} :
             /\ users' = res.db.users
             /\ rotations' = res.db.rotations
             /\ assignments' = res.db.assignments
             /\ escalations' = res.db.escalations
             /\ comments' = res.db.comments
             /\ last' = Handled(eventType, action, repo, n, commenter, cmds, res, pick, body)
    /\ handled' = handled + 1
    /\ UNCHANGED <<repoKind, call, dbLock, txWrite, enabledRepos, gwVars, swVars>>

IssuesEvent(action, repo, n) ==
    /\ handled < MaxEvents
    /\ Deliver("issues", action, repo, n, "none", << >>, "none")

IssueCommentEvent(action, repo, n, commenter, body) ==
    /\ handled < MaxEvents
    /\ Deliver("issue_comment", action, repo, n, commenter, body, "none")

PullRequestEvent(action, repo, n) ==
    /\ handled < MaxEvents
    /\ Deliver("pull_request", action, repo, n, "none", << >>, "none")

PullRequestReviewCommentEvent(action, repo, n, commenter, body) ==
    /\ handled < MaxEvents
    /\ Deliver("pull_request_review_comment", action, repo, n, commenter, body, "none")

OtherEvent(eventType, repo) ==
    /\ handled < MaxEvents
    /\ Deliver(eventType, "none", repo, 0, "none", << >>, "none")

\* DispatchEvent for a created issue comment: `go func(n, m) {
\* m.HandleEvent(..) }`, one goroutine per delivery, which runs beside the
\* goroutines of the other deliveries
SpawnHandler(p, cmd, repo, n, commenter) ==
    /\ cmd \in {"ack", "escalate"}
    /\ \A t \in tasks : t.proc # p
    /\ tasks' = tasks \cup {[proc |-> p, cmd |-> cmd, repo |-> repo, number |-> n,
                             commenter |-> commenter, state |-> "spawned",
                             e |-> EmptyID, copy |-> << >>, err |-> FALSE]}
    /\ UNCHANGED <<registry, lastReg, registryKind, held, reqs, dispatcher,
                   repoVars, cmdVars, swVars>>

\* the handler's first repository call: FindEscalationByIssue, which gives
\* the handler its own copy of the row
HandlerFind(t) ==
    /\ t \in tasks /\ t.state = "spawned"
    /\ \E e \in FoundAmong(EscalationMatches(escalations, "issue", t.repo, t.number)) :
         tasks' = (tasks \ {t}) \cup
                  {[t EXCEPT !.state = "found", !.e = e,
                             !.copy = IF e = EmptyID THEN << >> ELSE <<escalations[e]>>]}
    /\ UNCHANGED <<registry, lastReg, registryKind, held, reqs, dispatcher,
                   repoVars, cmdVars, swVars>>

\* the rest of the handler, from the test of what the lookup returned to
\* the return: its writes start from the copy the lookup made
HandlerRest(t) ==
    /\ t \in tasks /\ t.state = "found"
    /\ \E pick \in Picks(DB, "issue", t.repo, t.number, t.commenter, << >>) :
         \E res \in {RunCommand(IF t.e = EmptyID THEN DB
                                 ELSE [DB EXCEPT !.escalations[t.e] = t.copy[1]],
                                 "issue", t.cmd, t.repo, t.number, t.commenter,
                                 << >>, [pick EXCEPT !.e = t.e], "none")} :
            /\ users' = res.db.users
            /\ rotations' = res.db.rotations
            /\ assignments' = res.db.assignments
            /\ escalations' = res.db.escalations
            /\ comments' = res.db.comments
            /\ tasks' = (tasks \ {t}) \cup {[t EXCEPT !.state = "done", !.err = res.err]}
    /\ UNCHANGED <<repoKind, call, dbLock, txWrite, enabledRepos, last, handled,
                   registry, lastReg, registryKind, held, reqs, dispatcher, swVars>>

\* DispatchEvent for a created issue comment `/ack` or `/oncall add user
\* <handle> <name>`: the goroutine of one delivery, followed one repository
\* call at a time; handle is the commenter of /ack, the handle named by
\* add user
CmdSpawn(p, cmd, repo, n, handle, name) ==
    /\ cmd \in {"ack", "adduser"}
    /\ \A t \in tasks : t.proc # p
    /\ tasks' = tasks \cup {[proc |-> p, cmd |-> cmd, repo |-> repo, number |-> n,
                             handle |-> handle, name |-> name,
                             state |-> IF cmd = "ack" THEN "findEscalation" ELSE "findUser",
                             u |-> EmptyID, r |-> EmptyID, err |-> FALSE]}
    /\ UNCHANGED <<registry, lastReg, registryKind, held, reqs, dispatcher,
                   repoVars, cmdVars, swVars>>

\* handleAckCommand: FindEscalationByIssue; when a row is found, the
\* branch `Escalation exists` up to the return
CmdFindEscalation(t) ==
    /\ t \in tasks /\ t.state = "findEscalation"
    /\ \E e \in FoundAmong(EscalationMatches(escalations, "issue", t.repo, t.number)) :
         IF e = EmptyID
         THEN /\ tasks' = (tasks \ {t}) \cup
                    {IF FindMissIsError THEN [t EXCEPT !.state = "done", !.err = TRUE]
                     ELSE [t EXCEPT !.state = "findUser"]}
              /\ UNCHANGED <<users, rotations, assignments, escalations, comments>>
         ELSE \E res \in {HandleAckCommand(DB, "issue", t.repo, t.number, t.handle,
                                           [e |-> e, u |-> EmptyID, r |-> EmptyID,
                                            c |-> EmptyID, ar |-> EmptyID], "none")} :
                /\ tasks' = (tasks \ {t}) \cup {[t EXCEPT !.state = "done", !.err = res.err]}
                /\ escalations' = res.db.escalations
                /\ comments' = res.db.comments
                /\ UNCHANGED <<users, rotations, assignments>>
    /\ UNCHANGED <<repoKind, call, dbLock, txWrite, enabledRepos, last, handled,
                   registry, lastReg, registryKind, held, reqs, dispatcher, swVars>>

\* handleAckCommand / handleAddUserCommand: FindUserByGitHubUsername; add
\* user answers a handle that is found with its already-exists comment
CmdFindUser(t) ==
    /\ t \in tasks /\ t.state = "findUser"
    /\ \E u \in FoundAmong(UserMatches(users, t.handle)) :
         IF u = EmptyID
         THEN /\ tasks' = (tasks \ {t}) \cup
                    {IF FindMissIsError THEN [t EXCEPT !.state = "done", !.err = TRUE]
                     ELSE [t EXCEPT !.state = "createUser"]}
              /\ UNCHANGED comments
         ELSE IF t.cmd = "adduser"
         THEN \E res \in {PostComment(DB, "issue", t.repo, t.number, t.handle,
                                      "already exists", "none")} :
                /\ tasks' = (tasks \ {t}) \cup {[t EXCEPT !.state = "done", !.u = u]}
                /\ comments' = res.db.comments
         ELSE /\ tasks' = (tasks \ {t}) \cup {[t EXCEPT !.state = "findRotations", !.u = u]}
              /\ UNCHANGED comments
    /\ UNCHANGED <<users, rotations, assignments, escalations>>
    /\ UNCHANGED <<repoKind, call, dbLock, txWrite, enabledRepos, last, handled,
                   registry, lastReg, registryKind, held, reqs, dispatcher, swVars>>

\* CreateUser with a new uuid: INSERT INTO oncall_users, where
\* github_username is UNIQUE / r.users[user.ID] = user; add user then posts
\* its confirmation
CmdCreateUser(t) ==
    /\ t \in tasks /\ t.state = "createUser"
    /\ IF repoKind = "sqlite" /\ UserMatches(users, t.handle) # {}
       THEN /\ tasks' = (tasks \ {t}) \cup {[t EXCEPT !.state = "done", !.err = TRUE]}
            /\ UNCHANGED <<users, comments>>
       ELSE \E uid \in {NewID(users)} :
              /\ users' = (uid :> [handle |-> t.handle, name |-> t.name,
                                   active |-> TRUE]) @@ users
              /\ IF t.cmd = "adduser"
                 THEN \E res \in {PostComment(DB, "issue", t.repo, t.number, t.handle,
                                              "user added", "none")} :
                        /\ comments' = res.db.comments
                        /\ tasks' = (tasks \ {t}) \cup
                                    {[t EXCEPT !.state = "done", !.u = uid]}
                 ELSE /\ UNCHANGED comments
                      /\ tasks' = (tasks \ {t}) \cup
                                  {[t EXCEPT !.state = "findRotations", !.u = uid]}
    /\ UNCHANGED <<rotations, assignments, escalations>>
    /\ UNCHANGED <<repoKind, call, dbLock, txWrite, enabledRepos, last, handled,
                   registry, lastReg, registryKind, held, reqs, dispatcher, swVars>>

\* handleAckCommand: FindRotationsByRepository and the test len(rotations) == 0
CmdFindRotations(t) ==
    /\ t \in tasks /\ t.state = "findRotations"
    /\ \E r \in FoundAmong(RotationMatches(rotations, t.repo)) :
         tasks' = (tasks \ {t}) \cup
                  {IF r = EmptyID THEN [t EXCEPT !.state = "createRotation"]
                   ELSE [t EXCEPT !.state = "createAssignment", !.r = r]}
    /\ UNCHANGED <<registry, lastReg, registryKind, held, reqs, dispatcher,
                   repoVars, cmdVars, swVars>>

\* handleAckCommand: CreateRotation of the default rotation
CmdCreateRotation(t) ==
    /\ t \in tasks /\ t.state = "createRotation"
    /\ \E rid \in {NewID(rotations)} :
         /\ rotations' = (rid :> [name |-> <<t.repo, "Default Rotation">>,
                                  repository |-> t.repo, active |-> TRUE]) @@ rotations
         /\ tasks' = (tasks \ {t}) \cup {[t EXCEPT !.state = "createAssignment", !.r = rid]}
    /\ UNCHANGED <<users, escalations, comments, enabledRepos, last, handled>>
    /\ UNCHANGED <<registry, lastReg, registryKind, held, reqs, dispatcher,
                   repoVars, swVars>>

\* handleAckCommand from CreateAssignment to the return: the current
\* assignment of the user and rotation at hand, the acknowledged
\* escalation, the comment
CmdCreateAssignment(t) ==
    /\ t \in tasks /\ t.state = "createAssignment"
    /\ \E res \in {AckCreate(DB, "issue", t.repo, t.number, t.handle,
                             [e |-> EmptyID, u |-> t.u, r |-> t.r,
                              c |-> EmptyID, ar |-> EmptyID], "none")} :
         /\ assignments' = res.db.assignments
         /\ escalations' = res.db.escalations
         /\ comments' = res.db.comments
         /\ tasks' = (tasks \ {t}) \cup {[t EXCEPT !.state = "done", !.err = res.err]}
    /\ UNCHANGED <<users, rotations>>
    /\ UNCHANGED <<repoKind, call, dbLock, txWrite, enabledRepos, last, handled,
                   registry, lastReg, registryKind, held, reqs, dispatcher, swVars>>

\* the calls of a handler that can be made to fail, one per delivery
FailPoints ==
    {"none", "FindUser", "CreateUser", "FindRotations", "CreateRotation",
     "ResetCurrent", "CreateAssignment", "FindEscalation", "CreateEscalation",
     "UpdateEscalation", "FindCurrentAssignment", "FindUserByID", "PostComment"}

\* a created comment handled while the call named by fail fails
CommentEventFailing(eventType, repo, n, commenter, body, fail) ==
    /\ handled < MaxCommands
    /\ Deliver(eventType, "created", repo, n, commenter, body, fail)

\* any other delivery to the module
IgnoredEvent(eventType, action, repo, n, commenter, body) ==
    /\ handled < MaxCommands
    /\ Inert(eventType, action, body)
    /\ Deliver(eventType, action, repo, n, commenter, body, "none")

\* -------------------------------------------------------- webhook gateway
\* HMAC-SHA256 as an ideal MAC: the header carries the key and the bytes
\* the sender signed, hex-encoded (or not) behind a prefix
Sign(key, bytes) == [prefix |-> "sha256=", hex |-> TRUE, key |-> key, over |-> bytes]

Signatures ==
    {Sign(k, p.bytes) : k \in Keys, p \in Payloads} \cup
    {[Sign(WebhookSecret, p.bytes) EXCEPT !.prefix = "sha1="] : p \in Payloads} \cup
    {[Sign(WebhookSecret, p.bytes) EXCEPT !.hex = FALSE] : p \in Payloads}

\* mutant of verifySignature: the MAC is decoded but not compared
verifySignatureNoCompare(payload, sig) == sig.prefix = "sha256=" /\ sig.hex

\* HTTPServer.verifySignature
verifySignature(payload, sig) ==
    /\ sig.prefix = "sha256="
    /\ sig.hex
    /\ Sign(sig.key, sig.over) = Sign(WebhookSecret, payload.bytes)

\* mutant of ParseWebHookFails: every event parses
ParseWebHookNeverFails(eventType, payload) == FALSE

\* github.ParseWebHook(eventType, payload) returns an error: the event
\* type has no registered Go type, or the payload does not unmarshal
ParseWebHookFails(eventType, payload) ==
    eventType \notin ParserEventTypes \/ ~payload.json

NoPayload == [bytes |-> "", json |-> FALSE]
NoSignature == [prefix |-> "", hex |-> FALSE, key |-> "", over |-> ""]

\* a request before handleWebhook has looked at it
NewRequest ==
    [pc |-> "idle", payload |-> NoPayload, sig |-> NoSignature,
     eventType |-> "", status |-> 0, modules |-> << >>]

\* http.Error(w, .., code); return
Reject(r, code) == [r EXCEPT !.pc = "responded", !.status = code]

TasksOf(i) == {t \in tasks : t.req = i}

\* DefaultRegistry.GetModules: a copy of the map
GetModules == registry

\* mutant of Spawned: the loop stops after its first module
SpawnedFirstOnly(i, modules, eventType, payload) ==
    IF DOMAIN modules = {} THEN {}
    ELSE LET n == CHOOSE n \in DOMAIN modules : TRUE
         IN  {[req |-> i, name |-> n, module |-> modules[n], eventType |-> eventType,
               event |-> <<eventType, payload.bytes>>, raw |-> payload.bytes,
               state |-> "spawned", err |-> FALSE]}

\* for name, mod := range modules { go func(n, m) { m.HandleEvent(..) }(name, mod) }
Spawned(i, modules, eventType, payload) ==
    {[req |-> i, name |-> n, module |-> modules[n], eventType |-> eventType,
      event |-> <<eventType, payload.bytes>>, raw |-> payload.bytes,
      state |-> "spawned", err |-> FALSE] : n \in DOMAIN modules}

\* mutant of ResponseStatus: the code reflects the handlers' errors
ResponseStatusFromHandlers(i) ==
    IF \E t \in tasks : t.req = i /\ t.state = "done" /\ t.err THEN 500 ELSE 200

\* w.WriteHeader(http.StatusOK)
ResponseStatus(i) == 200

\* Module.HandleEvent can return an error: the on-call module returns nil
\* for the event types its switch does not name
HandlerMayFail(name, eventType) == name # "oncall" \/ eventType \in OnCallEventTypes

NoRegistration == [name |-> "", impl |-> "", refused |-> FALSE]

\* mutant of Registered: the later module replaces the earlier one
RegisteredOverwrite(modules, m) == (m.name :> m) @@ modules

\* r.modules after RegisterModule(m): a name registered twice is refused
Registered(modules, m) ==
    IF m.name \in DOMAIN modules THEN modules ELSE (m.name :> m) @@ modules

\* r.modules after MockRegistry.RegisterModule(m): r.modules[m.Name()] = m
MockRegistered(modules, m) == (m.name :> m) @@ modules

\* DefaultRegistry.RegisterModule / MockRegistry.RegisterModule
RegisterModule(m) ==
    /\ registry' = IF registryKind = "mock" THEN MockRegistered(registry, m)
                   ELSE Registered(registry, m)
    /\ lastReg' = [name |-> m.name, impl |-> m.impl,
                   refused |-> registryKind = "default" /\ m.name \in DOMAIN registry]
    /\ UNCHANGED <<registryKind, held, reqs, tasks, dispatcher, repoVars, cmdVars, swVars>>

\* no caller holds a map returned by GetModules
NoHeld == [taken |-> FALSE, shared |-> FALSE, modules |-> << >>, ops |-> 0]

\* the contents of the map the caller holds: its own copy, or the registry's
\* map when GetModules returned that map itself
HeldMap == IF held.shared THEN registry ELSE held.modules

\* modules := registry.GetModules(): DefaultRegistry copies r.modules under
\* the read lock, MockRegistry returns r.modules
GetModulesCall ==
    /\ held.ops < MaxHeldOps
    /\ held' = [taken |-> TRUE, shared |-> registryKind = "mock",
                modules |-> IF registryKind = "mock" THEN << >> ELSE registry,
                ops |-> held.ops + 1]
    /\ UNCHANGED <<registry, lastReg, registryKind, reqs, tasks, dispatcher,
                   repoVars, cmdVars, swVars>>

\* the caller stores into the map it holds: modules[m.Name()] = m
HeldAdd(m) ==
    /\ held.taken
    /\ held.ops < MaxHeldOps
    /\ IF held.shared
       THEN /\ registry' = (m.name :> m) @@ registry
            /\ held' = [held EXCEPT !.ops = @ + 1]
       ELSE /\ held' = [held EXCEPT !.modules = (m.name :> m) @@ @, !.ops = @ + 1]
            /\ UNCHANGED registry
    /\ UNCHANGED <<lastReg, registryKind, reqs, tasks, dispatcher,
                   repoVars, cmdVars, swVars>>

\* the caller deletes from the map it holds: delete(modules, name)
HeldDelete(name) ==
    /\ held.taken
    /\ held.ops < MaxHeldOps
    /\ IF held.shared
       THEN /\ registry' = [n \in DOMAIN registry \ {name} |-> registry[n]]
            /\ held' = [held EXCEPT !.ops = @ + 1]
       ELSE /\ held' = [held EXCEPT
                          !.modules = [n \in DOMAIN @ \ {name} |-> @[n]],
                          !.ops = @ + 1]
            /\ UNCHANGED registry
    /\ UNCHANGED <<lastReg, registryKind, reqs, tasks, dispatcher,
                   repoVars, cmdVars, swVars>>

\* payload, err := io.ReadAll(r.Body)
ReadBody(i, readable, payload) ==
    /\ reqs[i].pc = "idle"
    /\ reqs' = [reqs EXCEPT ![i] =
                 IF readable THEN [@ EXCEPT !.pc = "read", !.payload = payload]
                 ELSE Reject(@, 400)]
    /\ UNCHANGED <<registry, lastReg, registryKind, held, tasks, dispatcher, repoVars, cmdVars, swVars>>

\* sig := r.Header.Get("X-Hub-Signature-256"); if !s.verifySignature(payload, sig)
VerifySignature(i, sig) ==
    /\ reqs[i].pc = "read"
    /\ reqs' = [reqs EXCEPT ![i] =
                 IF verifySignature(@.payload, sig)
                 THEN [@ EXCEPT !.pc = "verified", !.sig = sig]
                 ELSE Reject([@ EXCEPT !.sig = sig], 401)]
    /\ UNCHANGED <<registry, lastReg, registryKind, held, tasks, dispatcher, repoVars, cmdVars, swVars>>

\* eventType = github.WebHookType(r); event, err := github.ParseWebHook(eventType, payload)
ParseEvent(i, eventType) ==
    /\ reqs[i].pc = "verified"
    /\ reqs' = [reqs EXCEPT ![i] =
                 IF ParseWebHookFails(eventType, @.payload)
                 THEN Reject([@ EXCEPT !.eventType = eventType], 400)
                 ELSE [@ EXCEPT !.pc = "parsed", !.eventType = eventType]]
    /\ UNCHANGED <<registry, lastReg, registryKind, held, tasks, dispatcher, repoVars, cmdVars, swVars>>

\* if s.dispatcher != nil { s.dispatcher.DispatchEvent(eventType, event, payload) }
Dispatch(i) ==
    /\ reqs[i].pc = "parsed"
    /\ LET modules == IF dispatcher THEN GetModules ELSE << >>
       IN  /\ reqs' = [reqs EXCEPT ![i] = [@ EXCEPT !.pc = "dispatched", !.modules = modules]]
           /\ tasks' = tasks \cup Spawned(i, modules, reqs[i].eventType, reqs[i].payload)
    /\ UNCHANGED <<registry, lastReg, registryKind, held, dispatcher, repoVars, cmdVars, swVars>>

\* w.WriteHeader(http.StatusOK)
Respond(i) ==
    /\ reqs[i].pc = "dispatched"
    /\ reqs' = [reqs EXCEPT ![i] = [@ EXCEPT !.pc = "responded", !.status = ResponseStatus(i)]]
    /\ UNCHANGED <<registry, lastReg, registryKind, held, tasks, dispatcher, repoVars, cmdVars, swVars>>

\* a spawned goroutine is scheduled and enters m.HandleEvent
StartTask(t) ==
    /\ t \in tasks /\ t.state = "spawned"
    /\ tasks' = (tasks \ {t}) \cup {[t EXCEPT !.state = "running"]}
    /\ UNCHANGED <<registry, lastReg, registryKind, held, reqs, dispatcher, repoVars, cmdVars, swVars>>

\* m.HandleEvent returns; an error is logged
FinishTask(t, err) ==
    /\ t \in tasks /\ t.state = "running"
    /\ err => HandlerMayFail(t.name, t.eventType)
    /\ tasks' = (tasks \ {t}) \cup {[t EXCEPT !.state = "done", !.err = err]}
    /\ UNCHANGED <<registry, lastReg, registryKind, held, reqs, dispatcher, repoVars, cmdVars, swVars>>

\* ---------------------------------------------------- escalation sweeper
NoTicker == [set |-> FALSE, running |-> FALSE, C |-> 0]

\* the goroutine before `go o.runEscalationCheck()`: where it is, the time
\* and the entries of its current tick, and what is remembered of it: the
\* entries the tick's query found, what became of each, the entries whose
\* write has ever failed, where it was when the stop channel was closed and
\* whether its current tick began after that
NoSweeper ==
    [pc |-> "none", now |-> ZeroTime, todo |-> << >>, outcome |-> << >>,
     found |-> {}, everFailed |-> {}, lost |-> {}, atStop |-> "",
     afterStop |-> FALSE]

\* time.NewTicker(EscalationCheckInterval)
NewTicker == [set |-> TRUE, running |-> TRUE, C |-> 0]

\* mutant of StopTicker: the ticker keeps running
StopTickerNoop(t) == t

\* if o.ticker != nil { o.ticker.Stop() }: no tick is sent any more, a tick
\* already in the channel stays there
StopTicker(t) == IF t.set THEN [t EXCEPT !.running = FALSE] ELSE t

\* mutant of FindEscalationsByStatus: the query finds nothing
FindEscalationsByStatusNone(escs, status) == << >>

\* FindEscalationsByStatus(ctx, StatusPending): copies of the matching rows
FindEscalationsByStatus(escs, status) ==
    [i \in {j \in DOMAIN escs : escs[j].status = status} |-> escs[i]]

\* mutant of Due: an escalation exactly one threshold old is not yet due
DueStrictlyOlder(row, t) == row.createdAt + EscalationThreshold < t

\* the negation of escalation.CreatedAt.Add(EscalationThreshold).After(now)
Due(row, t) == ~(row.createdAt + EscalationThreshold > t)

\* escalation.Status = StatusEscalated; escalation.EscalationTime = now
Escalated(row, t) == [row EXCEPT !.status = "escalated", !.escalationTime = t]

\* UpdateEscalation(ctx, &escalation): the whole row is written over the
\* row of that id; nothing happens when the id is not persisted
UpdateEscalation(escs, id, row) ==
    IF id \in DOMAIN escs THEN [escs EXCEPT ![id] = row] ELSE escs

\* mutant of Remaining: a failed write ends the loop
RemainingNoneAfterFailure(todo, id, failed) ==
    IF failed THEN << >> ELSE [i \in DOMAIN todo \ {id} |-> todo[i]]

\* the entries the range loop still has to visit after the one for id
\* (`continue` after a failed write)
Remaining(todo, id, failed) == [i \in DOMAIN todo \ {id} |-> todo[i]]

\* the comment of checkPendingEscalations, on the issue or on the PR
SweepComment(row) ==
    IF row.issueNumber # 0
    THEN <<[kind |-> "issue", repository |-> row.repository, number |-> row.issueNumber,
            mention |-> "", text |-> "automatically escalated"]>>
    ELSE IF row.prNumber # 0
    THEN <<[kind |-> "pr", repository |-> row.repository, number |-> row.prNumber,
            mention |-> "", text |-> "automatically escalated"]>>
    ELSE << >>

\* the clock advances
Pass ==
    /\ ~panicked
    /\ now < MaxTime
    /\ now' = now + 1
    /\ UNCHANGED <<ticker, stopCh, panicked, sweeper, faults, repoVars, cmdVars, gwVars>>

\* Module.Initialize: EnsureSchema, then the ticker and the goroutine
Initialize(schemaOK) ==
    /\ ~panicked
    /\ sweeper.pc = "none"
    /\ schemaOK \/ (repoKind = "sqlite" /\ faults < MaxFaults)
    /\ IF schemaOK
       THEN /\ ticker' = NewTicker
            /\ sweeper' = [sweeper EXCEPT !.pc = "select"]
            /\ UNCHANGED faults
       ELSE /\ faults' = faults + 1
            /\ UNCHANGED <<ticker, sweeper>>
    /\ UNCHANGED <<now, stopCh, panicked, repoVars, cmdVars, gwVars>>

\* the runtime sends a tick; it is dropped when the channel is full
Fire ==
    /\ ~panicked
    /\ ticker.running
    /\ ticker.C = 0
    /\ ticker' = [ticker EXCEPT !.C = 1]
    /\ UNCHANGED <<now, stopCh, panicked, sweeper, faults, repoVars, cmdVars, gwVars>>

\* Module.Shutdown: stop the ticker, close(o.stopCh); closing a closed
\* channel panics
Shutdown ==
    /\ ~panicked
    /\ ticker' = StopTicker(ticker)
    /\ IF stopCh = "closed"
       THEN panicked' = TRUE /\ UNCHANGED <<stopCh, sweeper>>
       ELSE /\ stopCh' = "closed"
            /\ sweeper' = [sweeper EXCEPT !.atStop = sweeper.pc]
            /\ UNCHANGED panicked
    /\ UNCHANGED <<now, faults, repoVars, cmdVars, gwVars>>

\* select, case <-o.stopCh: return
SelectStop ==
    /\ ~panicked
    /\ sweeper.pc = "select"
    /\ stopCh = "closed"
    /\ sweeper' = [sweeper EXCEPT !.pc = "returned"]
    /\ UNCHANGED <<now, ticker, stopCh, panicked, faults, repoVars, cmdVars, gwVars>>

\* select, case <-o.ticker.C: checkPendingEscalations up to its loop: the
\* query (on an error the tick is over) and now := time.Now()
SelectTick(queryOK) ==
    /\ ~panicked
    /\ sweeper.pc = "select"
    /\ ticker.C = 1
    /\ queryOK \/ (repoKind = "sqlite" /\ faults < MaxFaults)
    /\ ticker' = [ticker EXCEPT !.C = 0]
    /\ IF queryOK
       THEN /\ sweeper' =
                 LET rows == FindEscalationsByStatus(escalations, "pending")
                 IN  [sweeper EXCEPT !.pc = "sweep", !.now = now, !.todo = rows,
                                     !.found = DOMAIN rows, !.outcome = << >>,
                                     !.afterStop = (stopCh = "closed")]
            /\ UNCHANGED faults
       ELSE /\ faults' = faults + 1
            /\ UNCHANGED sweeper
    /\ UNCHANGED <<now, stopCh, panicked, repoVars, cmdVars, gwVars>>

\* one iteration of the range loop, for the entry id of the query result
SweepEntry(id, updateOK, commentOK) ==
    /\ ~panicked
    /\ sweeper.pc = "sweep"
    /\ id \in DOMAIN sweeper.todo
    /\ LET row == sweeper.todo[id]
           due == Due(row, sweeper.now)
           failed == due /\ ~updateOK
           lost == due /\ updateOK /\ ~commentOK
       IN  /\ due \/ (updateOK /\ commentOK)
           /\ (failed => repoKind = "sqlite") /\ (failed \/ lost => faults < MaxFaults)
           /\ faults' = IF failed \/ lost THEN faults + 1 ELSE faults
           /\ escalations' = IF due /\ updateOK
                             THEN UpdateEscalation(escalations, id, Escalated(row, sweeper.now))
                             ELSE escalations
           /\ comments' = IF due /\ updateOK /\ commentOK
                          THEN comments \o SweepComment(row) ELSE comments
           /\ sweeper' = [sweeper EXCEPT
                            !.todo = Remaining(@, id, failed),
                            !.outcome = (id :> (IF ~due THEN "skipped"
                                                ELSE IF failed THEN "failed"
                                                ELSE "escalated")) @@ @,
                            !.everFailed = IF failed THEN @ \cup {id} ELSE @,
                            !.lost = IF lost THEN @ \cup {id} ELSE @]
    /\ UNCHANGED <<now, ticker, stopCh, panicked, users, rotations, enabledRepos,
                   last, handled, repoVars, gwVars>>

\* the range loop is over: back to the select
SweepDone ==
    /\ ~panicked
    /\ sweeper.pc = "sweep"
    /\ sweeper.todo = << >>
    /\ sweeper' = [sweeper EXCEPT !.pc = "select"]
    /\ UNCHANGED <<now, ticker, stopCh, panicked, faults, repoVars, cmdVars, gwVars>>

\* ------------------------------------------------------- specifications
\* the parts of the state a specification does not exercise stay as
\* constructed
RepoIdle ==
    /\ call = [p \in Procs |-> IdleCall]
    /\ dbLock = NoLock
    /\ txWrite = [p \in Procs |-> {}]

CmdIdle ==
    /\ users = << >>
    /\ rotations = << >>
    /\ escalations = << >>
    /\ comments = << >>
    /\ enabledRepos = {}
    /\ last = NoEvent
    /\ handled = 0

GwIdle ==
    /\ registry = << >>
    /\ lastReg = NoRegistration
    /\ registryKind = "default"
    /\ held = NoHeld
    /\ reqs = << >>
    /\ tasks = {}
    /\ dispatcher = TRUE

\* NewModule: no ticker yet, an open stop channel, no goroutine
SwIdle ==
    /\ now = StartTime
    /\ ticker = NoTicker
    /\ stopCh = "open"
    /\ panicked = FALSE
    /\ sweeper = NoSweeper
    /\ faults = 0

InitRepo ==
    /\ repoKind \in RepoKinds
    /\ assignments = << >>
    /\ RepoIdle
    /\ CmdIdle
    /\ GwIdle
    /\ SwIdle

NextSeq ==
    \/ \E op \in {"create", "update"}, id \in AssignmentIDs \cup {EmptyID},
          rot \in RotationIDs, usr \in UserIDs, cur \in BOOLEAN :
            BeginCall("p1", op, id, rot, usr, cur)
    \/ \E ok \in BOOLEAN : ExecDirect("p1", ok)
    \/ \E ok \in BOOLEAN : ExecReset("p1", ok)
    \/ \E ok \in BOOLEAN : TxExec("p1", ok)
    \/ \E ok \in BOOLEAN : Commit("p1", ok)
    \/ Return("p1")

SpecSeq == InitRepo /\ [][NextSeq]_vars

\* C1: after every step of any sequence of CreateAssignment / UpdateAssignment
\* calls, against either repository, every rotation has at most one persisted
\* Assignment with isCurrent = true.
C1_AtMostOneCurrent ==
    \A r \in RotationIDs : Cardinality(CurrentOf(assignments, r)) <= 1

\* a mark-current call has completed and took the flag from the assignment
\* that was current before
C1_Witness ==
    \E p \in Procs :
        /\ call[p].pc = "done" /\ ~call[p].err /\ call[p].a.isCurrent
        /\ call[p].preCur # {}
        /\ CurrentOf(assignments, call[p].a.rotationID) = {call[p].a.id}
        /\ \E i \in call[p].preCur : i \in call[p].written /\ ~assignments[i].isCurrent

\* C3 (the claim as stated): when a mark-current call fails, no other
\* assignment of the rotation has lost its isCurrent flag: the reset and the
\* write of the target commit together or not at all.
C3_ResetAndWriteAtomic ==
    \A p \in Procs :
        (call[p].pc = "done" /\ call[p].err /\ call[p].a.isCurrent)
            => \A i \in call[p].preCur : assignments[i].isCurrent

\* ----------------------------------------------- two concurrent callers
\* persisted rows the two callers start from (the fixture's current
\* assignment of rotation-1, or nothing)
SeedAssignments ==
    { << >>,
      (1 :> [rotationID |-> "rotation-1", userID |-> "user-1", isCurrent |-> TRUE]) }

InitConc ==
    /\ repoKind \in RepoKinds
    /\ assignments \in SeedAssignments
    /\ RepoIdle
    /\ CmdIdle
    /\ GwIdle
    /\ SwIdle

\* each caller issues one CreateAssignment / UpdateAssignment with
\* isCurrent = true; their statements interleave
NextConc ==
    \E p \in Procs :
        \/ /\ call[p].op = "none"
           /\ \E op \in {"create", "update"}, id \in AssignmentIDs \cup {EmptyID},
                 rot \in RotationIDs, usr \in UserIDs :
                   BeginCall(p, op, id, rot, usr, TRUE)
        \/ \E ok \in BOOLEAN : ExecReset(p, ok)
        \/ \E ok \in BOOLEAN : TxExec(p, ok)
        \/ \E ok \in BOOLEAN : Commit(p, ok)
        \/ Busy(p)

SpecConc == InitConc /\ [][NextConc]_vars

\* ------------------------------------------- callers of Repo.Transaction
\* each caller runs transactions whose fn creates users and then returns
\* nil or an error
NextTx ==
    \E p \in Procs :
        \/ TransactionBegin(p)
        \/ \E handle \in Handles : TxCreateUser(p, handle)
        \/ \E fnErr \in BOOLEAN, commitOK \in BOOLEAN : TransactionEnd(p, fnErr, commitOK)
        \/ Return(p)

SpecTx == InitRepo /\ [][NextTx]_vars

\* C27 (the claim as stated): when a Transaction finishes, the rows its fn
\* wrote through the transaction handle are all absent from the repository
\* and the call returns an error if fn returned an error, and are all
\* present if it returned nil and the commit succeeded.
C27_TransactionIsAtomic ==
    [][ \A p \in Procs :
          (call[p].pc = "fn" /\ call'[p].pc = "done")
            => IF call'[p].err
               THEN call'[p].written \cap DOMAIN users' = {}
               ELSE call'[p].written \subseteq DOMAIN users' ]_vars

\* C2 (the claim as stated): two concurrent mark-current calls on one
\* rotation of the SQLite repository that both return nil and whose target
\* rows are both persisted leave exactly one current Assignment in it.
C2_ConcurrentMarkCurrentConverges ==
    ( /\ repoKind = "sqlite"
      /\ \A p \in Procs : call[p].pc = "done" /\ ~call[p].err
      /\ call["p1"].a.rotationID = call["p2"].a.rotationID
      /\ call["p1"].a.id # call["p2"].a.id
      /\ \A p \in Procs : call[p].a.id \in DOMAIN assignments )
        => Cardinality(CurrentOf(assignments, call["p1"].a.rotationID)) = 1

\* ------------------------------------------- sequentially handled events
\* persisted escalations the engine starts from: none, or one row for
\* issue 1 of the repository in any status
SeedEscalations ==
    { << >> } \cup
    { (1 :> [assignmentID |-> EmptyID, issueNumber |-> 1, prNumber |-> 0,
             repository |-> "org/repo", status |-> s,
             escalationTime |-> ZeroTime, resolutionTime |-> ZeroTime,
             createdAt |-> StartTime]) : s \in Statuses }

InitCmd ==
    /\ repoKind \in RepoKinds
    /\ assignments = << >>
    /\ users = << >>
    /\ rotations = << >>
    /\ escalations \in SeedEscalations
    /\ comments = << >>
    /\ enabledRepos \in EnabledConfigs
    /\ last = NoEvent
    /\ handled = 0
    /\ RepoIdle
    /\ GwIdle
    /\ SwIdle

NextCmd ==
    \/ \E action \in {"opened", "closed"}, repo \in Repos, n \in Numbers :
            IssuesEvent(action, repo, n)
    \/ \E action \in {"created", "edited"}, repo \in Repos, n \in Numbers,
          commenter \in Handles, body \in CommentBodies :
            IssueCommentEvent(action, repo, n, commenter, body)
    \/ \E action \in {"opened", "closed"}, repo \in Repos, n \in Numbers :
            PullRequestEvent(action, repo, n)
    \/ \E action \in {"created", "edited"}, repo \in Repos, n \in Numbers,
          commenter \in Handles, body \in CommentBodies :
            PullRequestReviewCommentEvent(action, repo, n, commenter, body)
    \/ \E repo \in Repos : OtherEvent("push", repo)

SpecCmd == InitCmd /\ [][NextCmd]_vars

\* commands of every kind, each with at most one failing call, on a store
\* that may already hold a user, a rotation and an escalation
SeedUsers ==
    { << >>, (1 :> [handle |-> "alice", name |-> "alice", active |-> TRUE]) }

SeedRotations ==
    { << >>, (1 :> [name |-> <<"P">>, repository |-> "org/repo", active |-> TRUE]) }

AllBodies == OnCallBodies \cup {EscalateWord, ResolveWord}

SeedPending ==
    {e \in SeedEscalations : \A i \in DOMAIN e : e[i].status = "pending"}

InitOnCall ==
    /\ repoKind \in RepoKinds
    /\ assignments = << >>
    /\ users \in SeedUsers
    /\ rotations \in SeedRotations
    /\ escalations \in SeedPending
    /\ comments = << >>
    /\ enabledRepos = {}
    /\ last = NoEvent
    /\ handled = 0
    /\ RepoIdle
    /\ GwIdle
    /\ SwIdle

NextOnCall ==
    \/ \E eventType \in {"issue_comment", "pull_request_review_comment"},
          repo \in Repos, body \in AllBodies, fail \in FailPoints :
            CommentEventFailing(eventType, repo, 1, "alice", body, fail)
    \/ \E eventType \in OnCallEventTypes \cup {"push"}, action \in {"created", "edited"},
          repo \in Repos, body \in AllBodies :
            IgnoredEvent(eventType, action, repo, 1, "alice", body)

SpecOnCall == InitOnCall /\ [][NextOnCall]_vars

\* two deliveries of /ack or /escalate for one issue, handled side by side,
\* with no Escalation persisted at the start
InitRace ==
    /\ repoKind \in RepoKinds
    /\ assignments = << >>
    /\ users \in SeedUsers
    /\ rotations \in SeedRotations
    /\ escalations = << >>
    /\ comments = << >>
    /\ enabledRepos = {}
    /\ last = NoEvent
    /\ handled = 0
    /\ RepoIdle
    /\ GwIdle
    /\ SwIdle

NextRace ==
    \/ \E p \in Procs, cmd \in {"ack", "escalate"}, repo \in Repos, commenter \in Handles :
            SpawnHandler(p, cmd, repo, 1, commenter)
    \/ \E t \in tasks : HandlerFind(t)
    \/ \E t \in tasks : HandlerRest(t)

SpecRace == InitRace /\ [][NextRace]_vars

\* C28 (the claim as stated): when two handlers of /ack or /escalate for the
\* same issue, started with no Escalation for it, have both finished,
\* exactly one Escalation row exists for that issue.
C28_ConcurrentCommandsLeaveOneRow ==
    \A t \in tasks, u \in tasks :
        ( /\ t.proc # u.proc
          /\ t.state = "done" /\ u.state = "done"
          /\ t.repo = u.repo /\ t.number = u.number )
            => Cardinality(EscalationMatches(escalations, "issue", t.repo, t.number)) = 1

\* deliveries of /ack and /oncall add user handled side by side, one
\* repository call at a time, on a store that has no Rotation and no
\* Escalation
InitCreate ==
    /\ repoKind \in RepoKinds
    /\ assignments = << >>
    /\ users \in SeedUsers
    /\ rotations = << >>
    /\ escalations = << >>
    /\ comments = << >>
    /\ enabledRepos = {}
    /\ last = NoEvent
    /\ handled = 0
    /\ RepoIdle
    /\ GwIdle
    /\ SwIdle

NextCreate ==
    \/ \E p \in Procs, cmd \in {"ack", "adduser"}, repo \in Repos, n \in Numbers,
          handle \in Handles :
            CmdSpawn(p, cmd, repo, n, handle, handle)
    \/ \E t \in tasks : CmdFindEscalation(t)
    \/ \E t \in tasks : CmdFindUser(t)
    \/ \E t \in tasks : CmdCreateUser(t)
    \/ \E t \in tasks : CmdFindRotations(t)
    \/ \E t \in tasks : CmdCreateRotation(t)
    \/ \E t \in tasks : CmdCreateAssignment(t)

SpecCreate == InitCreate /\ [][NextCreate]_vars

\* C31 (the claim as stated): whatever /oncall add user and /ack commands
\* have run, one after the other or side by side, no two persisted Users
\* have the same handle; an add user for a handle that its lookup finds
\* creates no User and posts the already-exists comment.
C31_UserHandlesUnique ==
    /\ [](\A i \in DOMAIN users, j \in DOMAIN users :
            users[i].handle = users[j].handle => i = j)
    /\ [][ \A t \in tasks :
             ( /\ t.cmd = "adduser" /\ t.state = "findUser"
               /\ UserMatches(users, t.handle) # {}
               /\ \E d \in tasks' : d.proc = t.proc /\ d.state # t.state )
                 => /\ users' = users
                    /\ Len(comments') = Len(comments) + 1
                    /\ comments'[Len(comments')].text = "already exists"
                    /\ comments'[Len(comments')].mention = t.handle ]_vars

\* C4 (the claim as stated, for a key whose Escalation is not resolved):
\* after `/ack` has been handled twice in sequence on one (repository,
\* issueNumber), exactly one Escalation row exists for that key and its
\* status is acknowledged.
C4_AckTwiceLeavesOneAcknowledged ==
    LET rows == EscalationMatches(escalations, "issue", last.repo, last.number)
    IN  ( /\ last.eventType = "issue_comment" /\ last.cmd = "ack" /\ last.repeat
          /\ \A i \in rows : escalations[i].status # "resolved" )
            => /\ Cardinality(rows) = 1
               /\ \A i \in rows : escalations[i].status = "acknowledged"

\* C10 (the claim as stated): a created issue comment `/ack` by U on issue
\* N of repository R, handled with no prior persisted data, leaves an
\* active User U, exactly one Rotation of R named "R Default Rotation", one
\* current Assignment of that User to that Rotation, one acknowledged
\* Escalation for (R, N) referring to that Assignment, and exactly one
\* comment, which mentions U.
C10_AckOnFreshStateCreatesAll ==
    ( last.eventType = "issue_comment" /\ last.cmd = "ack" /\ last.fresh )
        => \E u \in DOMAIN users, r \in DOMAIN rotations,
              a \in DOMAIN assignments, e \in DOMAIN escalations :
            /\ users[u].handle = last.commenter /\ users[u].active
            /\ RotationMatches(rotations, last.repo) = {r}
            /\ rotations[r].name = <<last.repo, "Default Rotation">>
            /\ DOMAIN assignments = {a}
            /\ assignments[a] = [rotationID |-> r, userID |-> u, isCurrent |-> TRUE]
            /\ EscalationMatches(escalations, "issue", last.repo, last.number) = {e}
            /\ escalations[e].status = "acknowledged"
            /\ escalations[e].assignmentID = a
            /\ Len(comments) = 1
            /\ comments[1].mention = last.commenter

\* C11 (the claim as stated): with either repository, a command whose
\* lookup of the Escalation finds no row goes on to its not-found branch:
\* the handler does not return an error for the miss.
C11_LookupMissIsNotAnError ==
    (last.cmd # "none" /\ last.prior = "none") => ~last.err

\* C12: `/ack` on an issue or PR whose Escalation exists changes that
\* Escalation's status to acknowledged exactly when it was pending or
\* escalated, leaves it unchanged when it was acknowledged or resolved, and
\* creates no User, Rotation, Assignment or Escalation.
C12_AckOnExistingEscalation ==
    [][ (handled' = handled + 1 /\ last'.cmd = "ack" /\ last'.prior # "none")
          => LET rows == EscalationMatches(escalations, KindOf(last'.eventType),
                                           last'.repo, last'.number)
             IN  /\ users' = users /\ rotations' = rotations
                 /\ assignments' = assignments
                 /\ DOMAIN escalations' = DOMAIN escalations
                 /\ \A i \in DOMAIN escalations :
                      escalations'[i] =
                        IF i \in rows /\ escalations[i].status \in {"pending", "escalated"}
                        THEN [escalations[i] EXCEPT !.status = "acknowledged"]
                        ELSE escalations[i] ]_vars

\* `/ack` found a pending or escalated Escalation and acknowledged it
C12_Witness ==
    /\ last.cmd = "ack" /\ ~last.err
    /\ last.prior \in {"pending", "escalated"}
    /\ \E i \in EscalationMatches(escalations, KindOf(last.eventType),
                                  last.repo, last.number) :
          escalations[i].status = "acknowledged"
    /\ assignments = << >>

\* C13 (the claim as stated): no step changes the status of an Escalation
\* that is resolved.
C13_ResolvedIsTerminal ==
    [][ \A i \in DOMAIN escalations :
          escalations[i].status = "resolved"
            => i \in DOMAIN escalations' /\ escalations'[i].status = "resolved" ]_vars

\* C14 (the claim as stated, for a `/escalate` that returns no error): the
\* key has exactly one Escalation, escalated at the time of the command;
\* when it was created by the command and the repository has a rotation
\* with a current Assignment, it refers to that Assignment and the
\* notification names that Assignment's User, otherwise the reference is
\* unset and the notification is generic.
C14_EscalateCreatesOrUpdates ==
    (last.cmd = "escalate" /\ ~last.err)
      => LET rows == EscalationMatches(escalations, KindOf(last.eventType),
                                       last.repo, last.number)
             cur == UNION {CurrentOf(assignments, r) :
                              r \in RotationMatches(rotations, last.repo)}
         IN  /\ Cardinality(rows) = 1
             /\ Len(comments) > 0
             /\ \A i \in rows :
                  /\ escalations[i].status = "escalated"
                  /\ escalations[i].escalationTime = now
                  /\ last.prior = "none" =>
                       IF cur # {}
                       THEN /\ escalations[i].assignmentID \in cur
                            /\ comments[Len(comments)].mention =
                                 users[assignments[escalations[i].assignmentID].userID].handle
                       ELSE /\ escalations[i].assignmentID = EmptyID
                            /\ comments[Len(comments)].mention = ""

\* C15: `/resolve` on an issue or PR with no Escalation changes no
\* persisted state and sends no notification; with an existing Escalation
\* it sets the status to resolved and the resolution timestamp, sends one
\* notification and creates no row.
C15_ResolveNoOpOrResolves ==
    [][ (handled' = handled + 1 /\ last'.cmd = "resolve")
          => LET rows == EscalationMatches(escalations, KindOf(last'.eventType),
                                           last'.repo, last'.number)
             IN  /\ users' = users /\ rotations' = rotations
                 /\ assignments' = assignments
                 /\ IF rows = {}
                    THEN escalations' = escalations /\ comments' = comments
                    ELSE /\ DOMAIN escalations' = DOMAIN escalations
                         /\ \A i \in DOMAIN escalations :
                              escalations'[i] =
                                IF i \in rows
                                THEN [escalations[i] EXCEPT !.status = "resolved",
                                                            !.resolutionTime = now]
                                ELSE escalations[i]
                         /\ Len(comments') = Len(comments) + 1
                         /\ SubSeq(comments', 1, Len(comments)) = comments
                         /\ comments'[Len(comments')].number = last'.number ]_vars

\* `/resolve` found an Escalation that was not resolved and resolved it
C15_Witness ==
    /\ last.cmd = "resolve" /\ ~last.err
    /\ last.prior \in {"pending", "acknowledged", "escalated"}
    /\ \E i \in EscalationMatches(escalations, KindOf(last.eventType),
                                  last.repo, last.number) :
          /\ escalations[i].status = "resolved"
          /\ escalations[i].resolutionTime = now
    /\ Len(comments) > 0
    /\ comments[Len(comments)].text = "resolved by"

\* ------------------------------------------------------ webhook requests
InitGw ==
    /\ repoKind = "sqlite"
    /\ assignments = << >>
    /\ RepoIdle
    /\ CmdIdle
    /\ registry = << >>
    /\ lastReg = NoRegistration
    /\ registryKind = "default"
    /\ held = NoHeld
    /\ reqs = [i \in Requests |-> NewRequest]
    /\ tasks = {}
    /\ dispatcher \in BOOLEAN
    /\ SwIdle

NextGw ==
    \/ \E m \in Modules : RegisterModule(m)
    \/ \E i \in Requests, readable \in BOOLEAN, payload \in Payloads :
            ReadBody(i, readable, payload)
    \/ \E i \in Requests, sig \in Signatures : VerifySignature(i, sig)
    \/ \E i \in Requests, eventType \in EventTypes : ParseEvent(i, eventType)
    \/ \E i \in Requests : Dispatch(i)
    \/ \E i \in Requests : Respond(i)
    \/ \E t \in tasks : StartTask(t)
    \/ \E t \in tasks, err \in BOOLEAN : FinishTask(t, err)

SpecGw == InitGw /\ [][NextGw]_vars

\* C5: handleWebhook parses and dispatches an event only after the body
\* has been read and the signature has been verified against the secret:
\* a signature with another prefix, one that is not hex, one computed over
\* other bytes or with another secret is answered 401 with no handler
\* invoked, and a correct signature is never answered 401.
C5_SignatureGatesDispatch ==
    \A i \in Requests :
        LET r == reqs[i]
            genuine == /\ r.sig.prefix = "sha256=" /\ r.sig.hex
                       /\ r.sig.key = WebhookSecret
                       /\ r.payload # NoPayload /\ r.sig.over = r.payload.bytes
        IN  /\ ( \/ r.pc \in {"verified", "parsed", "dispatched"}
                 \/ r.eventType # "" \/ r.status = 200 \/ TasksOf(i) # {} ) => genuine
            /\ (r.sig # NoSignature /\ ~genuine)
                  => r.pc = "responded" /\ r.status = 401 /\ TasksOf(i) = {}
            /\ genuine => r.status # 401

\* a request signed with another secret has been answered 401 and no
\* handler was invoked for it
C5_Witness ==
    \E i \in Requests :
        /\ reqs[i].pc = "responded" /\ reqs[i].status = 401
        /\ reqs[i].sig.prefix = "sha256=" /\ reqs[i].sig.hex
        /\ reqs[i].sig.key # WebhookSecret /\ reqs[i].sig.over = reqs[i].payload.bytes
        /\ TasksOf(i) = {}

\* C6: the status code of a response follows from the ingress steps alone:
\* 400 when the body cannot be read, 401 when the signature check fails,
\* 400 when the event cannot be parsed, 200 otherwise.
C6_StatusFromIngressOnly ==
    \A i \in Requests :
        LET r == reqs[i]
            genuine == /\ r.sig.prefix = "sha256=" /\ r.sig.hex
                       /\ r.sig.key = WebhookSecret /\ r.sig.over = r.payload.bytes
        IN  r.pc = "responded" =>
              r.status = IF r.payload = NoPayload THEN 400
                         ELSE IF ~genuine THEN 401
                         ELSE IF r.eventType \notin ParserEventTypes \/ ~r.payload.json THEN 400
                         ELSE 200

\* a request has been answered 200 although one of its handlers returned
\* an error
C6_Witness ==
    \E i \in Requests :
        /\ reqs[i].pc = "responded" /\ reqs[i].status = 200
        /\ \E t \in TasksOf(i) : t.state = "done" /\ t.err

\* C7: after DispatchEvent the 200 response can be written at once,
\* whatever the handler invocations are doing, and a request that was
\* dispatched is answered 200 whatever its handlers returned.
C7_ResponseDoesNotWaitForHandlers ==
    \A i \in Requests :
        /\ reqs[i].pc = "dispatched" => ENABLED Respond(i)
        /\ (reqs[i].pc = "responded" /\ TasksOf(i) # {}) => reqs[i].status = 200

\* the 200 response has been written while one handler invocation has not
\* started and another is still running
C7_Witness ==
    \E i \in Requests :
        /\ reqs[i].pc = "responded" /\ reqs[i].status = 200
        /\ \E t \in TasksOf(i) : t.state = "spawned"
        /\ \E t \in TasksOf(i) : t.state = "running"

\* C8: DispatchEvent invokes HandleEvent exactly once for every handler
\* registered when it ran, with the request's event type, parsed event and
\* raw body, each in its own invocation: a handler's error removes or
\* blocks no other invocation, and a request that was not dispatched has
\* none.
C8_DispatchInvokesEachHandlerOnce ==
    \A i \in Requests :
        LET r == reqs[i]
        IN  IF r.pc = "dispatched" \/ r.status = 200
            THEN /\ {t.name : t \in TasksOf(i)} = DOMAIN r.modules
                 /\ Cardinality(TasksOf(i)) = Cardinality(DOMAIN r.modules)
                 /\ \A n \in DOMAIN r.modules :
                        n \in DOMAIN registry /\ registry[n] = r.modules[n]
                 /\ \A t \in TasksOf(i) :
                        /\ t.module = r.modules[t.name]
                        /\ t.eventType = r.eventType
                        /\ t.event = <<r.eventType, r.payload.bytes>>
                        /\ t.raw = r.payload.bytes
                        /\ t.state = "spawned" => ENABLED StartTask(t)
                        /\ t.state = "running" => ENABLED FinishTask(t, FALSE)
            ELSE TasksOf(i) = {}

\* two handlers were registered when the event was dispatched; one has
\* returned an error and the other has run to the end
C8_Witness ==
    \E i \in Requests :
        /\ Cardinality(DOMAIN reqs[i].modules) = 2
        /\ \E t1, t2 \in TasksOf(i) :
              /\ t1.state = "done" /\ t1.err
              /\ t2.state = "done" /\ ~t2.err

\* C9 (the claim as stated): a correctly signed request with a well-formed
\* body whose event-type header names an event type the gateway's parser
\* does not know is answered 200 and handed to the registered handlers.
C9_UnknownEventTypePassedThrough ==
    \A i \in Requests :
        LET r == reqs[i]
        IN  ( /\ r.pc = "responded" /\ r.payload.json
              /\ r.eventType # "" /\ r.eventType \notin ParserEventTypes )
                => r.status = 200 /\ {t.name : t \in TasksOf(i)} = DOMAIN r.modules
\* C20: RegisterModule with a name that is already registered is refused:
\* the registry keeps every name mapped to the module registered first and
\* the same number of modules, and the call returns without a panic.
C20_DuplicateRegistrationRefused ==
    [][ /\ \A n \in DOMAIN registry :
              n \in DOMAIN registry' /\ registry'[n] = registry[n]
        /\ (lastReg' # lastReg /\ lastReg'.name \in DOMAIN registry)
              => /\ lastReg'.refused
                 /\ registry' = registry
                 /\ Cardinality(DOMAIN registry') = Cardinality(DOMAIN registry)
                 /\ panicked' = panicked ]_vars

\* another module was offered under a registered name and the first one is
\* still the registered one
C20_Witness ==
    /\ lastReg.refused
    /\ lastReg.name \in DOMAIN registry
    /\ registry[lastReg.name].impl # lastReg.impl
    /\ Cardinality(DOMAIN registry) = 1

\* ------------------------------------------------------ registry callers
InitReg ==
    /\ repoKind = "sqlite"
    /\ assignments = << >>
    /\ RepoIdle
    /\ CmdIdle
    /\ SwIdle
    /\ registry = << >>
    /\ lastReg = NoRegistration
    /\ registryKind \in {"default", "mock"}
    /\ held = NoHeld
    /\ reqs = << >>
    /\ tasks = {}
    /\ dispatcher = TRUE

NextReg ==
    \/ \E m \in Modules : RegisterModule(m)
    \/ GetModulesCall
    \/ \E m \in Modules : HeldAdd(m)
    \/ \E name \in {m.name : m \in Modules} : HeldDelete(name)

SpecReg == InitReg /\ [][NextReg]_vars

\* C21 (the claim as stated): the map GetModules returned is an independent
\* snapshot: no step but the holder's own changes its contents, and the
\* holder's stores into it and deletions from it leave the registry as it
\* was.
C21_GetModulesReturnsSnapshot ==
    [][ /\ (held.taken /\ held' = held) => HeldMap' = HeldMap
        /\ (held.taken /\ held' # held) => registry' = registry ]_vars

\* ------------------------------------------------------- sweeper behaviours
\* persisted escalations the sweeper starts from: one for issue 1, pending
\* or resolved, alone or with a pending one for pull request 1, each
\* created at StartTime or one unit later
SeedSweep ==
    LET E(k, s, t) == [assignmentID |-> EmptyID,
                       issueNumber |-> IF k = "issue" THEN 1 ELSE 0,
                       prNumber |-> IF k = "pr" THEN 1 ELSE 0,
                       repository |-> "org/repo", status |-> s,
                       escalationTime |-> ZeroTime, resolutionTime |-> ZeroTime,
                       createdAt |-> t]
        T == {StartTime, StartTime + 1}
    IN  { (1 :> E("issue", s, t)) : s \in {"pending", "resolved"}, t \in T } \cup
        { (1 :> E("issue", s, t)) @@ (2 :> E("pr", "pending", u)) :
              s \in {"pending", "resolved"}, t \in T, u \in T }

InitSweep ==
    /\ repoKind \in RepoKinds
    /\ assignments = << >>
    /\ users = << >>
    /\ rotations = << >>
    /\ escalations \in SeedSweep
    /\ comments = << >>
    /\ enabledRepos = {}
    /\ last = NoEvent
    /\ handled = 0
    /\ RepoIdle
    /\ GwIdle
    /\ now = StartTime + 1
    /\ ticker = NoTicker
    /\ stopCh = "open"
    /\ panicked = FALSE
    /\ sweeper = NoSweeper
    /\ faults = 0

NextSweep ==
    \/ Pass
    \/ \E schemaOK \in BOOLEAN : Initialize(schemaOK)
    \/ Fire
    \/ Shutdown
    \/ SelectStop
    \/ \E queryOK \in BOOLEAN : SelectTick(queryOK)
    \/ \E id \in DOMAIN sweeper.todo, updateOK \in BOOLEAN, commentOK \in BOOLEAN :
            SweepEntry(id, updateOK, commentOK)
    \/ SweepDone

SpecSweep == InitSweep /\ [][NextSweep]_vars

\* the comments posted on the issue or pull request of an escalation
CommentsOn(row) ==
    {c \in 1..Len(comments) :
        /\ comments[c].repository = row.repository
        /\ comments[c].kind = (IF row.issueNumber # 0 THEN "issue" ELSE "pr")
        /\ comments[c].number = (IF row.issueNumber # 0 THEN row.issueNumber
                                 ELSE row.prNumber)}

\* C16: on a sweep tick a pending Escalation whose createdAt + threshold is
\* still in the future at the tick stays pending and untouched; one whose
\* createdAt + threshold is the tick time or earlier gets status escalated
\* and the tick time as escalation timestamp (unless its write failed).
C16_EscalatedIffThresholdReached ==
    /\ \A id \in DOMAIN sweeper.outcome :
         LET row == escalations[id]
         IN  IF row.createdAt + EscalationThreshold > sweeper.now
             THEN /\ row.status = "pending"
                  /\ row.escalationTime = ZeroTime
                  /\ CommentsOn(row) = {}
             ELSE \/ sweeper.outcome[id] = "failed"
                  \/ row.status = "escalated" /\ row.escalationTime = sweeper.now
    /\ \A id \in DOMAIN escalations :
         escalations[id].status = "escalated"
            => escalations[id].createdAt + EscalationThreshold
                   <= escalations[id].escalationTime

\* one tick has left an Escalation created threshold - 1 ago pending and
\* has escalated one created exactly threshold ago
C16_Witness ==
    \E i \in DOMAIN sweeper.outcome, j \in DOMAIN sweeper.outcome :
        /\ escalations[i].createdAt + EscalationThreshold = sweeper.now + 1
        /\ escalations[i].status = "pending"
        /\ escalations[j].createdAt + EscalationThreshold = sweeper.now
        /\ escalations[j].status = "escalated"
        /\ escalations[j].escalationTime = sweeper.now

\* C17: within one sweep tick an Escalation whose UpdateEscalation failed
\* is still persisted as pending and has no notification, and when the tick
\* is over every Escalation its query returned has been visited: the stale
\* ones whose write did not fail are escalated.
C17_FailedWriteDoesNotStopSweep ==
    /\ \A id \in DOMAIN sweeper.outcome :
         sweeper.outcome[id] = "failed"
            => escalations[id].status = "pending" /\ CommentsOn(escalations[id]) = {}
    /\ sweeper.pc \in {"select", "returned"}
         => \A id \in sweeper.found :
              /\ id \in DOMAIN sweeper.outcome
              /\ (Due(escalations[id], sweeper.now) /\ sweeper.outcome[id] # "failed")
                    => escalations[id].status = "escalated"

\* a tick is over in which the write of one stale Escalation failed and
\* another stale Escalation was escalated
C17_Witness ==
    /\ sweeper.pc = "select"
    /\ \E i \in sweeper.found, j \in sweeper.found :
        /\ sweeper.outcome[i] = "failed" /\ escalations[i].status = "pending"
        /\ sweeper.outcome[j] = "escalated" /\ escalations[j].status = "escalated"
        /\ escalations[j].escalationTime = sweeper.now

\* the goroutine is scheduled and the running ticker keeps sending ticks
SweepFairness ==
    /\ WF_vars(Fire)
    /\ WF_vars(SelectStop \/ \E queryOK \in BOOLEAN : SelectTick(queryOK))
    /\ WF_vars(\E id \in DOMAIN sweeper.todo, updateOK \in BOOLEAN, commentOK \in BOOLEAN :
                    SweepEntry(id, updateOK, commentOK))
    /\ WF_vars(SweepDone)

SpecSweepLive == InitSweep /\ [][NextSweep]_vars /\ SweepFairness


\* C18: while the sweeper runs and is not stopped, every Escalation that is
\* pending and older than the threshold is eventually escalated, also when
\* writes fail at first.
C18_StalePendingEventuallyEscalated ==
    \A id \in UNION {DOMAIN e : e \in SeedSweep} :
        ( /\ id \in DOMAIN escalations
          /\ escalations[id].status = "pending"
          /\ escalations[id].createdAt + EscalationThreshold <= now
          /\ sweeper.pc \in {"select", "sweep"} )
        ~> ( \/ id \in DOMAIN escalations /\ escalations[id].status = "escalated"
             \/ stopCh = "closed"
             \/ panicked )

\* an Escalation whose write failed in one tick was escalated by a later one
C18_Witness ==
    \E id \in sweeper.everFailed :
        /\ escalations[id].status = "escalated"
        /\ stopCh = "open"

\* C19: after Shutdown on an initialized module the sweeper loop eventually
\* returns and the ticker is stopped; the loop leaves a sweep only when
\* every entry of the tick has been visited, and only then looks at the
\* stop channel.
C19_ShutdownStopsSweeper ==
    /\ (sweeper.atStop \in {"select", "sweep"})
          ~> ( \/ sweeper.pc = "returned" /\ ~ticker.running
               \/ panicked )
    /\ [][ (sweeper.pc = "sweep" /\ sweeper'.pc # "sweep")
              => sweeper.todo = << >> /\ sweeper'.pc = "select" ]_vars
    /\ [](sweeper.pc = "returned"
              => stopCh = "closed" /\ sweeper.found = DOMAIN sweeper.outcome)

\* Shutdown was called during a sweep; the sweep visited all its entries
\* and the loop then returned
C19_Witness ==
    /\ sweeper.pc = "returned"
    /\ sweeper.atStop = "sweep"
    /\ ~ticker.running
    /\ sweeper.found # {}
    /\ sweeper.found = DOMAIN sweeper.outcome


\* C22: whenever a repository operation fails while a command is being
\* handled, the handler returns an error to its caller and no notification
\* is posted.
C22_RepositoryFailureStopsHandler ==
    [][ (handled' = handled + 1 /\ last'.cause = "repo")
            => (last'.err /\ comments' = comments) ]_vars

C22_Witness ==
    /\ last.cause = "repo" /\ last.err
    /\ last.cmd = "adduser"
    /\ comments = << >>


\* commands and sweep ticks whose comment call may fail, on a store that
\* holds one stale pending escalation
SeedStale ==
    (1 :> [assignmentID |-> EmptyID, issueNumber |-> 1, prNumber |-> 0,
           repository |-> "org/repo", status |-> "pending",
           escalationTime |-> ZeroTime, resolutionTime |-> ZeroTime,
           createdAt |-> StartTime])

InitNotify ==
    /\ repoKind \in RepoKinds
    /\ assignments = << >>
    /\ users \in SeedUsers
    /\ rotations = << >>
    /\ escalations = SeedStale
    /\ comments = << >>
    /\ enabledRepos = {}
    /\ last = NoEvent
    /\ handled = 0
    /\ RepoIdle
    /\ GwIdle
    /\ now = StartTime + EscalationThreshold
    /\ ticker = NoTicker
    /\ stopCh = "open"
    /\ panicked = FALSE
    /\ sweeper = NoSweeper
    /\ faults = 0

NextNotify ==
    \/ \E schemaOK \in {TRUE} : Initialize(schemaOK)
    \/ Fire
    \/ \E queryOK \in {TRUE} : SelectTick(queryOK)
    \/ \E id \in DOMAIN sweeper.todo, updateOK \in {TRUE}, commentOK \in BOOLEAN :
            SweepEntry(id, updateOK, commentOK)
    \/ SweepDone
    \/ \E eventType \in {"issue_comment", "pull_request_review_comment"},
          repo \in Repos, body \in {AckWord, EscalateWord, ResolveWord},
          fail \in {"none", "PostComment"} :
            CommentEventFailing(eventType, repo, 1, "alice", body, fail)

SpecNotify == InitNotify /\ [][NextNotify]_vars

\* the comments the sweeper posted for an escalation
SweepCommentsOn(row) ==
    {c \in CommentsOn(row) : comments[c].text = "automatically escalated"}

\* C23: when the comment call of a command fails, the persisted entities
\* are those of the same command with a successful comment call and no
\* comment is recorded; when the comment call of a sweep iteration fails,
\* the Escalation is persisted as escalated at the tick time, and the
\* sweeper never posts a notification for it later.
C23_CommentFailureKeepsState ==
    /\ [][ (handled' = handled + 1 /\ last'.cause = "comment")
             => /\ comments' = comments
                /\ \E body \in KnownBodies :
                     /\ CommandsRun(KindOf(last'.eventType), "created", last'.repo, body)
                            = last'.ran
                     /\ \E pick \in Picks(DB, KindOf(last'.eventType), last'.repo,
                                          last'.number, last'.lookedUp,
                                          Matched[body].sub.name) :
                          \E ok \in {HandleEvent(DB, last'.eventType, "created",
                                                 last'.repo, last'.number,
                                                 last'.commenter, body, pick, "none")} :
                            /\ ~ok.err
                            /\ Len(ok.db.comments) = Len(comments) + 1
                            /\ users' = ok.db.users
                            /\ rotations' = ok.db.rotations
                            /\ assignments' = ok.db.assignments
                            /\ escalations' = ok.db.escalations ]_vars
    /\ [][ \A id \in sweeper'.lost \ sweeper.lost :
             /\ escalations'[id] = Escalated(sweeper.todo[id], sweeper.now)
             /\ comments' = comments
             /\ id \notin DOMAIN sweeper'.todo ]_vars
    /\ [](\A id \in sweeper.lost :
             /\ escalations[id].status # "pending"
             /\ SweepCommentsOn(escalations[id]) = {})

\* the comment call failed both in a command that had changed an
\* Escalation and in a sweep iteration, and later ticks have passed
C23_Witness ==
    /\ last.cause = "comment" /\ last.cmd = "escalate"
    /\ comments = << >>
    /\ \E id \in DOMAIN escalations : escalations[id].issueNumber = 0
    /\ 1 \in sweeper.lost /\ sweeper.pc = "select" /\ sweeper.found = {}


\* C24 (the claim as stated): every command that is recognized and returns
\* without error posts exactly one comment, on the issue or pull request it
\* was issued on.
C24_SuccessfulCommandPostsOneComment ==
    [][ (handled' = handled + 1 /\ last'.cmd # "none" /\ ~last'.err)
            => /\ Len(comments') = Len(comments) + 1
               /\ SubSeq(comments', 1, Len(comments)) = comments
               /\ comments'[Len(comments')].kind = KindOf(last'.eventType)
               /\ comments'[Len(comments')].repository = last'.repo
               /\ comments'[Len(comments')].number = last'.number ]_vars


\* C25: an event that is not a comment event, a comment event whose action
\* is not `created`, and a comment whose body matches none of the six
\* patterns leave users, rotations, assignments and escalations unchanged
\* and post no comment.
C25_IgnoredEventChangesNothing ==
    [][ (handled' = handled + 1 /\ last'.inert)
            => UNCHANGED <<users, rotations, assignments, escalations, comments>> ]_vars

\* an edited or unmatched issue comment has been handled after a command
\* that had posted a comment
C25_Witness ==
    /\ last.eventType = "issue_comment" /\ last.inert
    /\ handled = 2
    /\ comments # << >>
    /\ users # << >>


\* C26: a CreateAssignment or UpdateAssignment call with isCurrent = false
\* that completes has written at most its own row: every other Assignment
\* is what it was before the step that did the write, and no other row is
\* among those the call has set (is_current, updated_at).
C26_NotCurrentWritesOnlyTarget ==
    [][ \A p \in Procs :
          (call[p].pc # "done" /\ call'[p].pc = "done" /\ ~call'[p].a.isCurrent)
            => /\ \A i \in DOMAIN assignments \ {call'[p].a.id} :
                    i \in DOMAIN assignments' /\ assignments'[i] = assignments[i]
               /\ DOMAIN assignments' \subseteq DOMAIN assignments \cup {call'[p].a.id}
               /\ call'[p].written \subseteq {call'[p].a.id} ]_vars

\* a row that is not current has been written into a rotation whose
\* current Assignment is another row, which is still current
C26_Witness ==
    \E p \in Procs :
        /\ call[p].pc = "done" /\ ~call[p].err /\ ~call[p].a.isCurrent
        /\ call[p].written = {call[p].a.id}
        /\ \E i \in CurrentOf(assignments, call[p].a.rotationID) : i # call[p].a.id


\* C29: one invocation of a comment handler runs at most one command
\* handler, the one of the first pattern, in the order ack, escalate,
\* resolve, add-user, add-rotation, assign-user, that the body matches; so
\* every invocation posts at most one comment.
C29_AtMostOneCommandPerComment ==
    /\ Len(last.ran) <= 1
    /\ last.ran # << >> => (last.first # 0 /\ last.ran = <<PatternOrder[last.first]>>)
    /\ Len(comments) <= handled

\* a comment of two lines, each of which is a command, has run the
\* command of its first line only
C29_Witness ==
    /\ last.lines = 2 /\ last.ran = <<"ack">>
    /\ handled = 1 /\ Len(comments) = 1
    /\ \A i \in DOMAIN escalations : escalations[i].status = "acknowledged"


\* created comments of every kind, handled one after the other with no
\* failing call
NextAssign ==
    \E eventType \in {"issue_comment", "pull_request_review_comment"},
       repo \in Repos, body \in AllBodies, fail \in {"none"} :
         CommentEventFailing(eventType, repo, 1, "alice", body, fail)

SpecAssign == InitOnCall /\ [][NextAssign]_vars

\* C30 (the claim as stated): an assign-user command changes the
\* assignments only when the User it names and a Rotation of the repository
\* with that name, compared case-insensitively, were found; when either is
\* missing, no user, rotation, assignment or escalation is created or
\* modified and exactly one corrective comment is posted.
C30_AssignNeedsUserAndRotation ==
    [][ (handled' = handled + 1 /\ last'.cmd = "assign")
          => /\ assignments' # assignments => (last'.found.u /\ last'.found.ar)
             /\ (~last'.found.u \/ ~last'.found.ar)
                  => /\ UNCHANGED <<users, rotations, assignments, escalations>>
                     /\ Len(comments') = Len(comments) + 1
                     /\ comments'[Len(comments')].text
                            \in {"user does not exist", "rotation does not exist"} ]_vars


\* C32 (the claim as stated): `/oncall add rotation <name>` handled on a
\* repository that already has a Rotation with that name creates no second
\* Rotation with that name for the repository.
C32_AddRotationRefusesDuplicateName ==
    [][ (handled' = handled + 1 /\ last'.cmd = "addrotation")
            => \A i \in DOMAIN rotations' \ DOMAIN rotations :
                 \A j \in DOMAIN rotations :
                    ~ ( /\ rotations[j].repository = rotations'[i].repository
                        /\ rotations[j].name = rotations'[i].name ) ]_vars


\* C33 (the claim as stated): a step of the sweeper (a step that handles no
\* event) never writes escalated over an Escalation whose persisted status
\* is acknowledged or resolved, also when the tick read the Escalation as
\* pending before a command changed it.
C33_SweeperOnlyMovesPending ==
    [][ handled' = handled
            => \A id \in DOMAIN escalations :
                 escalations[id].status \in {"acknowledged", "resolved"}
                    => escalations'[id].status # "escalated" ]_vars


\* C34 (the claim as stated): no step of an UpdateAssignment call with
\* isCurrent = true for an id that is not persisted changes a persisted
\* Assignment; in particular the rotation's current Assignment keeps its
\* isCurrent flag, in the SQLite and in the in-memory repository.
C34_UpdateOfUnknownIdChangesNothing ==
    [][ \A p \in Procs :
          ( /\ call'[p] # call[p]
            /\ call'[p].op = "update" /\ call'[p].a.isCurrent
            /\ call'[p].a.id \notin DOMAIN assignments )
              => assignments' = assignments ]_vars


\* C35 (the claim as stated): after any sequence of sequentially handled
\* /ack commands on the create path and /oncall assign commands, every
\* rotation that has Assignments has exactly one current Assignment, the
\* one created last (ids are handed out in creation order), and every
\* earlier Assignment of the rotation has isCurrent = false.
C35_LatestAssignmentIsCurrent ==
    \A r \in DOMAIN rotations :
        LET rows == {i \in DOMAIN assignments : assignments[i].rotationID = r}
        IN  rows # {} =>
              CurrentOf(assignments, r) = {CHOOSE i \in rows : \A j \in rows : j <= i}


\* C36 (the claim as stated): when /ack handlers for different issues of a
\* repository that had no Rotation have all finished, exactly one Rotation
\* named "<repo> Default Rotation" exists for that repository.
C36_OneDefaultRotationPerRepository ==
    \A t \in tasks, u \in tasks :
        ( /\ t.proc # u.proc /\ t.cmd = "ack" /\ u.cmd = "ack"
          /\ t.repo = u.repo /\ t.number # u.number
          /\ t.state = "done" /\ u.state = "done" )
            => Cardinality({r \in RotationMatches(rotations, t.repo) :
                               rotations[r].name = <<t.repo, "Default Rotation">>}) = 1


\* comment events for a listed and for an unlisted repository, under each
\* configuration of EnabledRepositories
InitEnabled ==
    /\ repoKind \in RepoKinds
    /\ assignments = << >>
    /\ users \in SeedUsers
    /\ rotations \in SeedRotations
    /\ escalations \in SeedPending
    /\ comments = << >>
    /\ enabledRepos \in EnabledConfigs
    /\ last = NoEvent
    /\ handled = 0
    /\ RepoIdle
    /\ GwIdle
    /\ SwIdle

NextEnabled ==
    \/ \E eventType \in {"issue_comment", "pull_request_review_comment"},
          repo \in Repos \cup {"org/other"}, body \in AllBodies :
            CommentEventFailing(eventType, repo, 1, "alice", body, "none")
    \/ \E eventType \in OnCallEventTypes \cup {"push"}, action \in {"created", "edited"},
          repo \in Repos \cup {"org/other"}, body \in {AckWord} :
            IgnoredEvent(eventType, action, repo, 1, "alice", body)

SpecEnabled == InitEnabled /\ [][NextEnabled]_vars

\* C37: with a non-empty EnabledRepositories, an event that changes a
\* persisted entity or posts a comment is an event for a repository of the
\* list (so an event for any other repository changes nothing and posts
\* nothing, whatever its body); with an empty list, every created issue
\* comment whose body matches a command pattern has its command run,
\* whatever its repository (a review comment runs /ack, /escalate and
\* /resolve only).
C37_DisabledRepositoryIsIgnored ==
    /\ [][ ( /\ handled' = handled + 1
             /\ enabledRepos # {}
             /\ <<users, rotations, assignments, escalations, comments>>'
                    # <<users, rotations, assignments, escalations, comments>> )
               => last'.repo \in enabledRepos ]_vars
    /\ [][ (handled' = handled + 1 /\ enabledRepos # {} /\ last'.cmd # "none")
               => last'.repo \in enabledRepos ]_vars
    /\ [][ ( /\ handled' = handled + 1 /\ enabledRepos = {}
             /\ last'.eventType = "issue_comment" /\ ~last'.inert )
               => last'.cmd # "none" ]_vars

\* with org/other alone in the list, two created comments with a command
\* for org/repo have been handled and nothing has been persisted or posted
C37_Witness ==
    /\ enabledRepos = {"org/other"}
    /\ handled = 2
    /\ last.eventType = "issue_comment" /\ ~last.inert /\ last.cmd = "none"
    /\ users = << >> /\ rotations = << >> /\ assignments = << >>
    /\ escalations = << >> /\ comments = << >>


\* C38 (the claim as stated): Shutdown can be called before Initialize,
\* after Initialize and again after an earlier Shutdown, and no call panics.
C38_ShutdownNeverPanics == ~panicked

\* C39 (the claim as stated): once Shutdown has closed the stop channel,
\* the sweeper loop begins no further run of checkPendingEscalations, also
\* when a tick was waiting in the ticker channel at that moment.
C39_NoSweepAfterStop ==
    /\ ~sweeper.afterStop
    /\ [][ stopCh = "closed" => ~(sweeper.pc = "select" /\ sweeper'.pc = "sweep") ]_vars

====
